---- MODULE Spec2Model ----
(***************************************************************************)
(* A model of the session and playback-transition engine of                *)
(* src/src/services/ChromecastService.js: the queue, the device session,   *)
(* the verified playMedia command, the user skip commands and the          *)
(* auto-advance paths (fallback advance, 'finished' handler, preload and   *)
(* seamless switch, bounded-retry recovery).                               *)
(*                                                                         *)
(* JavaScript runs one callback at a time: every action below is one run   *)
(* of the event loop, from the event that starts it (a call by the user, a *)
(* device callback, a pushed event, a timer) to the next await of every    *)
(* async function it runs.  The async invocations that are suspended at an *)
(* await are the records of `tasks`.                                       *)
(***************************************************************************)
EXTENDS Integers, Sequences, FiniteSets, TLC

\* ------------------------------------------------------------------ bounds
NumTracks == 2      \* tracks of the catalog
MaxQueue == 3       \* longest queue a caller loads
MaxTasks == 3       \* async invocations suspended at the same time
MaxCalls == 1       \* user commands in flight at the same time
Duration == 10      \* duration (s) the device reports for every track

\* ------------------------------------------------------- program constants
maxAttempts == 3    \* _playTrackWithRecovery

Null == "null"
Undefined == 0      \* queue[i] for an index outside the array
Tracks == 1..NumTracks
DeviceNames == {"tv", "hifi"}
RepeatModes == {"none", "one", "all"}
PlayerStates == {"IDLE", "BUFFERING", "PLAYING", "PAUSED"}
Times == {0, 9}     \* playback positions (s) the device reports

VARIABLES
    devices,                  \* this.devices: the names discovery has reported
    currentDevice,            \* this.currentDevice: a device name or Null
    currentStatus,            \* this.currentStatus
    queue,                    \* this.queue: a sequence of tracks
    currentTrackIndex,        \* this.currentTrackIndex, 0-based, -1 = none
    shuffle,                  \* this.shuffle
    repeat,                   \* this.repeat
    originalQueue,            \* this.originalQueue
    isAutoAdvancing,          \* this.isAutoAdvancing
    sessionWarmupInProgress,  \* this.sessionWarmupInProgress
    preloadInProgress,        \* this.preloadInProgress
    connectionKeepAlive,      \* this.connectionKeepAlive: the interval is set
    savedDevice,              \* the device name ConnectionManager has on file
    tasks,                    \* the suspended async invocations
    queueService,             \* the ChromecastServiceQueue object (index.js)
    rawStatus,                \* the status payload the device library hands over
    reported,                 \* the reports of one track end the device has delivered
    sent,                     \* the device calls made by the last step
    outcome                   \* what the last step returned to its callers

vars == <<devices, currentDevice, currentStatus, queue, currentTrackIndex,
          shuffle, repeat, originalQueue, isAutoAdvancing,
          sessionWarmupInProgress, preloadInProgress, connectionKeepAlive,
          savedDevice, tasks, queueService, rawStatus, reported, sent,
          outcome>>

\* --------------------------------------------------------------- statuses
Media == [present |-> TRUE, duration |-> Duration]
NoMedia == [present |-> FALSE, duration |-> 0]      \* media: null

\* A status: volume is Null (null), "record" (a record of level and muted)
\* or "number" (a bare number); no handler reads it.
MkStatus(ps, t, m) ==
    [playerState |-> ps, currentTime |-> t, media |-> m, volume |-> Null]

\* _getDefaultStatus
DefaultStatus == MkStatus("IDLE", 0, NoMedia)

\* getStatus answered with an error, or with no status object
NoStatus == MkStatus("none", 0, NoMedia)

\* The statuses a device pushes or returns to getStatus: a change of the
\* player state, or the progress of the track that is playing.
StateStatuses == {MkStatus(ps, 0, Media) : ps \in PlayerStates}
ProgressStatuses == {MkStatus("PLAYING", t, Media) : t \in Times \ {0}}
DeviceStatuses == StateStatuses \cup ProgressStatuses
\* An object payload whose playerState is none of the four player states.
MalformedStatus == MkStatus("UNKNOWN", 0, NoMedia)

IsPlayingOrBuffering(st) == st.playerState \in {"PLAYING", "BUFFERING"}

\* ------------------------------------------------------------------ queue
\* queue[i] of the source, i 0-based
TrackAt(q, i) == IF 0 <= i /\ i < Len(q) THEN q[i + 1] ELSE Undefined

Queues == UNION {[1..n -> Tracks] : n \in 0..MaxQueue}

\* ------------------------------------------------------------------ tasks
NoTask == [kind |-> "none", pc |-> "none", track |-> Undefined, trackIndex |-> -1,
           queueBackup |-> <<>>, attempt |-> 0, forceStop |-> FALSE,
           first |-> FALSE, alias |-> FALSE, name |-> Null, ret |-> "none"]

TaskIds == 1..MaxTasks

UserKinds == {"skipToNext", "skipToPrevious", "skipToTrack", "playMedia",
              "playQueue", "playLegacy", "connectToDevice", "setVolume", "addToQueue"}

\* The state of the service as one record, so that a handler is a function
\* from state to state and a synchronous call chain is a composition.
St == [devices |-> devices, currentDevice |-> currentDevice,
       currentStatus |-> currentStatus, queue |-> queue,
       currentTrackIndex |-> currentTrackIndex, shuffle |-> shuffle,
       repeat |-> repeat, originalQueue |-> originalQueue,
       isAutoAdvancing |-> isAutoAdvancing,
       sessionWarmupInProgress |-> sessionWarmupInProgress,
       preloadInProgress |-> preloadInProgress,
       connectionKeepAlive |-> connectionKeepAlive,
       savedDevice |-> savedDevice, tasks |-> tasks,
       queueService |-> queueService, rawStatus |-> rawStatus,
       reported |-> reported,
       sent |-> {}, outcome |-> {}, overflow |-> FALSE]

Commit(s) ==
    /\ ~s.overflow
    /\ devices' = s.devices
    /\ currentDevice' = s.currentDevice
    /\ currentStatus' = s.currentStatus
    /\ queue' = s.queue
    /\ currentTrackIndex' = s.currentTrackIndex
    /\ shuffle' = s.shuffle
    /\ repeat' = s.repeat
    /\ originalQueue' = s.originalQueue
    /\ isAutoAdvancing' = s.isAutoAdvancing
    /\ sessionWarmupInProgress' = s.sessionWarmupInProgress
    /\ preloadInProgress' = s.preloadInProgress
    /\ connectionKeepAlive' = s.connectionKeepAlive
    /\ savedDevice' = s.savedDevice
    /\ tasks' = s.tasks
    /\ queueService' = s.queueService
    /\ rawStatus' = s.rawStatus
    /\ reported' = s.reported
    /\ sent' = s.sent
    /\ outcome' = s.outcome

FreeIds(s) == {i \in TaskIds : s.tasks[i].kind = "none"}

\* The slot a new async invocation takes (0 when the bound MaxTasks is hit).
NewId(s) == IF FreeIds(s) = {} THEN 0
            ELSE CHOOSE i \in FreeIds(s) : \A j \in FreeIds(s) : i <= j

SetTask(s, i, t) ==
    IF i = 0 THEN [s EXCEPT !.overflow = TRUE]
    ELSE [s EXCEPT !.tasks = [s.tasks EXCEPT ![i] = t]]

SetPc(s, i, p) == [s EXCEPT !.tasks = [s.tasks EXCEPT ![i].pc = p]]

EndTask(s, i) == SetTask(s, i, NoTask)

\* A device call: device.getStatus, device.play, device.stop, ...
Send(s, cmd, track) == [s EXCEPT !.sent = s.sent \cup {[cmd |-> cmd, track |-> track]}]

\* What an invocation returns to (or throws at) its caller.
Outcome(op, status, err, t, seen) ==
    [op |-> op, status |-> status, err |-> err, target |-> t.trackIndex,
     track |-> t.track, attempt |-> t.attempt, kind |-> t.kind, seen |-> seen]

Return(s, op, status, err, t) ==
    [s EXCEPT !.outcome = s.outcome \cup {Outcome(op, status, err, t, Null)}]

Ok == "ok"
StatusOf(err) == IF err = Ok THEN "success" ELSE "error"


\* ------------------------------------------------------------- playMedia
RECURSIVE PlayMediaDone(_, _, _, _)
RECURSIVE RecoveryAttempt(_, _)
RECURSIVE ConnectToDevice(_, _, _, _)
RECURSIVE HandleStatusUpdate(_, _, _)
RECURSIVE PreloadGo(_, _)

\* _ensureSessionActive, first half: the status probe is sent.
EnsureSessionActive(s, i) == SetPc(Send(s, "getStatus", Undefined), i, "ensure")

\* playMedia, up to its first await.
PlayMedia(s, i) ==
    IF s.currentDevice = Null
    THEN PlayMediaDone(s, i, "No device connected", Null)
    ELSE EnsureSessionActive(s, i)

\* _playMediaDirectly, up to the await of the load.
PlayMediaDirectly(s, i) ==
    IF s.currentDevice = Null
    THEN PlayMediaDone(s, i, "No device connected", Null)
    ELSE SetPc(Send(s, "play", s.tasks[i].track), i, "load")

\* _stopCurrentPlayback, up to the await of the stop.
StopCurrentPlayback(s, i) ==
    IF s.currentDevice = Null
    THEN PlayMediaDirectly(s, i)
    ELSE SetPc(Send(s, "stop", Undefined), i, "stop")

\* playMedia after `await this._ensureSessionActive()`: the value the call
\* resolved to is not read.
AfterEnsure(s, i, established) ==
    IF s.tasks[i].kind = "playQueue"
    THEN EndTask(Return([s EXCEPT !.currentTrackIndex = 0], "playQueue",
                        "success", Ok, s.tasks[i]), i)
    ELSE IF s.tasks[i].forceStop THEN StopCurrentPlayback(s, i)
    ELSE PlayMediaDirectly(s, i)

\* _ensureSessionActive: the callback of the status probe.
\* resp: "status" (a status object), "nostatus" (no error, no status),
\* "nosession" (the 'no session started' error), "error" (another error).
EnsureCallback(s, i, resp) ==
    IF resp \in {"status", "error"}
    THEN AfterEnsure(s, i, TRUE)
    ELSE SetPc(Send([s EXCEPT !.sessionWarmupInProgress = TRUE],
                    "playDummy", Undefined), i, "warmPlay")

\* _ensureSessionActive: the callback of the placeholder load.
WarmPlayCallback(s, i, resp) ==
    IF resp = "error"
    THEN AfterEnsure([s EXCEPT !.sessionWarmupInProgress = FALSE], i, FALSE)
    ELSE SetPc(s, i, "warmTimer")

\* _ensureSessionActive: the 800 ms timer stops the placeholder.
WarmTimer(s, i) == SetPc(Send(s, "stop", Undefined), i, "warmStop")

\* _ensureSessionActive: the callback of the stop re-checks the status.
WarmStopCallback(s, i) == SetPc(Send(s, "getStatus", Undefined), i, "warmStatus")

\* _ensureSessionActive: the callback of the re-check ends the warm-up.
WarmStatusCallback(s, i) ==
    AfterEnsure([s EXCEPT !.sessionWarmupInProgress = FALSE], i, TRUE)

\* _stopCurrentPlayback: the callback of the stop.
StopCallback(s, i) == PlayMediaDirectly(s, i)

\* _playMediaDirectly: the callback of the load ("ok" or "error").
LoadCallback(s, i, resp) ==
    IF resp = "error"
    THEN PlayMediaDone(s, i, "Failed to play media", Null)
    ELSE SetPc(s, i, "verifyDelay")

\* _playMediaDirectly: the 10 s timer of the load.
LoadTimeout(s, i) == PlayMediaDone(s, i, "Media load timeout", Null)

\* _verifyPlayback returning true when the time is up.
VerifyTickLenient(s, i, elapsed) ==
    IF elapsed
    THEN PlayMediaDone(s, i, Ok, Null)
    ELSE IF IsPlayingOrBuffering(s.currentStatus)
    THEN PlayMediaDone(s, i, Ok, s.currentStatus.playerState)
    ELSE IF s.currentDevice = Null
    THEN SetPc(s, i, "verifyWait")
    ELSE SetPc(Send(s, "getStatus", Undefined), i, "verifyPoll")

\* _verifyPlayback: one turn of the loop, after the initial delay or after
\* the delay between polls.  `elapsed`: Date.now() - start >= timeout.
VerifyTick(s, i, elapsed) ==
    IF elapsed
    THEN PlayMediaDone(s, i, "Playback verification failed", Null)
    ELSE IF IsPlayingOrBuffering(s.currentStatus)
    THEN PlayMediaDone(s, i, Ok, s.currentStatus.playerState)
    ELSE IF s.currentDevice = Null
    THEN SetPc(s, i, "verifyWait")      \* getStatus of null throws: polled = null
    ELSE SetPc(Send(s, "getStatus", Undefined), i, "verifyPoll")

\* _verifyPlayback: the callback of a poll.  st: a status, or Null (an error
\* or no status).
VerifyPollCallback(s, i, st) ==
    IF st = NoStatus
    THEN SetPc(s, i, "verifyWait")
    ELSE LET s1 == HandleStatusUpdate(s, s.currentDevice, st)
         IN IF IsPlayingOrBuffering(st)
            THEN PlayMediaDone(s1, i, Ok, st.playerState)
            ELSE SetPc(s1, i, "verifyWait")

\* --------------------------------------------------- _playTrackWithRecovery
\* The end of _playTrackWithRecovery and of the function that awaited it.
RecoveryEnd(s, i, err) ==
    LET t  == s.tasks[i]
        s1 == Return(s, "_playTrackWithRecovery", StatusOf(err), err, t)
        s2 == [s1 EXCEPT !.isAutoAdvancing = FALSE]   \* finally
    IN IF t.kind = "seamlessRec" /\ err # Ok
       THEN EndTask(Return(s2, "unhandledRejection", "error", err, t), i)
       ELSE EndTask(s2, i)

\* The catch of one attempt, with `attempt > maxAttempts` for its test.
AttemptFailedOffByOne(s, i, err) ==
    LET s1 == Return(s, "attempt", "error", err, s.tasks[i])
    IN IF s.tasks[i].attempt > maxAttempts
       THEN RecoveryEnd(s1, i, err)
       ELSE SetPc(s1, i, "backoff")

\* The catch of one attempt.
AttemptFailed(s, i, err) ==
    LET s1 == Return(s, "attempt", "error", err, s.tasks[i])
    IN IF s.tasks[i].attempt = maxAttempts
       THEN RecoveryEnd(s1, i, err)
       ELSE SetPc(s1, i, "backoff")

\* `this.queue = queueBackup; this.currentTrackIndex = trackIndex`
RestoreQueue(s, i) ==
    [s EXCEPT !.queue = s.tasks[i].queueBackup,
              !.currentTrackIndex = s.tasks[i].trackIndex,
              !.tasks = [j \in TaskIds |->
                           [s.tasks[j] EXCEPT !.alias = (j = i)]]]

RecoveryPlay(s, i) == PlayMedia(RestoreQueue(s, i), i)

RecoveryAfterRec2(s, i) ==
    IF s.currentDevice = Null
    THEN AttemptFailed(s, i, "Unable to establish device connection")
    ELSE RecoveryPlay(s, i)

RecoveryAfterRec1(s, i) ==
    IF s.currentDevice = Null
    THEN IF s.savedDevice # Null
         THEN ConnectToDevice(RestoreQueue(s, i), i, s.savedDevice, "rec2")
         ELSE RecoveryAfterRec2(s, i)
    ELSE RecoveryPlay(s, i)

\* One attempt of the loop, up to its first await.
RecoveryAttempt(s, i) ==
    IF s.currentDevice = Null
    THEN IF s.savedDevice # Null       \* _attemptDeviceRecovery
         THEN ConnectToDevice(s, i, s.savedDevice, "rec1")
         ELSE RecoveryAfterRec1(s, i)
    ELSE RecoveryPlay(s, i)

\* The backoff timer of a failed attempt.
Backoff(s, i) ==
    RecoveryAttempt([s EXCEPT !.tasks = [s.tasks EXCEPT ![i].attempt = @ + 1,
                                                        ![i].pc = "run"]], i)

\* _playTrackWithRecovery(track, queueBackup, trackIndex), called by `kind`.
PlayTrackWithRecovery(s, kind, track, queueBackup, trackIndex, alias) ==
    LET i == NewId(s)
        t == [NoTask EXCEPT !.kind = kind, !.pc = "run", !.track = track,
                            !.trackIndex = trackIndex,
                            !.queueBackup = queueBackup, !.attempt = 1,
                            !.forceStop = TRUE, !.alias = alias]
    IN IF i = 0 THEN [s EXCEPT !.overflow = TRUE]
       ELSE RecoveryAttempt(SetTask(s, i, t), i)

\* The end of playMedia: err = Ok, or the message of the error thrown.
PlayMediaDone(s, i, err, seen) ==
    LET t  == s.tasks[i]
        s1 == [s EXCEPT !.outcome =
                 s.outcome \cup {Outcome("playMedia", StatusOf(err), err, t, seen)}]
    IN CASE t.kind \in {"advance", "seamlessRec"} ->
              IF err = Ok THEN RecoveryEnd(s1, i, Ok) ELSE AttemptFailed(s1, i, err)
         [] t.kind = "finished" ->
              EndTask([s1 EXCEPT !.isAutoAdvancing = FALSE], i)
         [] t.kind = "seamless" ->
              IF err = Ok
              THEN EndTask([s1 EXCEPT !.isAutoAdvancing = FALSE], i)
              ELSE RecoveryAttempt(
                     SetTask(s1, i, [t EXCEPT !.kind = "seamlessRec", !.pc = "run",
                                              !.queueBackup = s1.queue,
                                              !.attempt = 1, !.forceStop = TRUE,
                                              !.alias = TRUE]), i)
         [] OTHER ->
              EndTask(Return(s1, t.kind, StatusOf(err), err, t), i)


\* ------------------------------------------------------- connectToDevice
\* disconnect()
Disconnect(s) ==
    LET s1 == [s EXCEPT !.connectionKeepAlive = FALSE]
    IN IF s1.currentDevice # Null
       THEN [s1 EXCEPT !.currentDevice = Null, !.currentStatus = DefaultStatus]
       ELSE s1

\* connectToDevice returns (err = Ok) or throws to the function awaiting it.
ConnectReturn(s, i, err) ==
    LET t == s.tasks[i]
    IN CASE t.ret = "rec1" -> RecoveryAfterRec1(s, i)   \* _attemptDeviceRecovery catches
         [] t.ret = "rec2" ->
              IF err = Ok THEN RecoveryAfterRec2(s, i) ELSE AttemptFailed(s, i, err)
         [] t.ret = "preload" -> PreloadGo(s, i)
         [] OTHER -> EndTask(Return(s, "connectToDevice", StatusOf(err), err, t), i)

\* The catch of connectToDevice: disconnect, then rethrow.
ConnectFail(s, i, err) == ConnectReturn(Disconnect(s), i, err)

\* The connection is up: save the state, start the keep-alive, resolve.
ConnectEstablished(s, i, st) ==
    LET name == s.tasks[i].name
        s1 == IF st = NoStatus THEN s ELSE HandleStatusUpdate(s, name, st)
    IN ConnectReturn([s1 EXCEPT !.savedDevice = name,
                                !.connectionKeepAlive = TRUE], i, Ok)

\* connectToDevice from the device-switch test to the first status probe.
ConnectSwitch(s, i) ==
    LET name == s.tasks[i].name
    IN IF s.currentDevice # Null /\ s.currentDevice # name
       THEN ConnectReturn(s, i, Ok)                \* keep the current connection
       ELSE LET s1 == IF s.currentDevice = Null THEN Disconnect(s) ELSE s
            IN SetPc(Send([s1 EXCEPT !.currentDevice = name], "getStatus", Undefined),
                     i, "cInit")

\* connectToDevice once the device is known.
ConnectFound(s, i) ==
    IF s.currentDevice # Null /\ s.currentDevice = s.tasks[i].name
    THEN SetPc(Send(s, "getStatus", Undefined), i, "cHealth")
    ELSE ConnectSwitch(s, i)

\* connectToDevice(deviceName) awaited by task i; ret names the caller.
ConnectToDevice(s, i, name, ret) ==
    LET s1 == [s EXCEPT !.tasks = [s.tasks EXCEPT ![i].name = name, ![i].ret = ret]]
    IN IF name = ""
       THEN ConnectFail(s1, i, "deviceName must be a non-empty string")
       ELSE IF name \in s1.devices THEN ConnectFound(s1, i)
       ELSE IF s1.devices # {} THEN ConnectFail(s1, i, "Device not found")
       ELSE SetPc(s1, i, "cDiscover")

\* discoverDevices: the 10 s timer.
DiscoverTimer(s, i) ==
    IF s.tasks[i].name \in s.devices
    THEN ConnectFound(s, i)
    ELSE ConnectFail(s, i, "Device not found")

\* connectToDevice returns true after the health check of the connection it
\* already has ("healthy" marks this return in the outcome).
ConnectHealthy(s, i) ==
    LET t == s.tasks[i]
    IN IF t.ret \in {"rec1", "rec2", "preload"} THEN ConnectReturn(s, i, Ok)
       ELSE EndTask([s EXCEPT !.outcome =
                       s.outcome \cup {Outcome("connectToDevice", "success", Ok, t,
                                               "healthy")}], i)

\* The health check with a reconnection after a successful probe as well.
HealthCallbackReconnect(s, i, resp) == ConnectSwitch(s, i)

\* The health check of an existing connection.
HealthCallback(s, i, resp) ==
    IF resp = "error" THEN ConnectSwitch(s, i) ELSE ConnectHealthy(s, i)

\* attemptDirectConnection
AttemptDirectConnection(s, i) == SetPc(Send(s, "getStatus", Undefined), i, "cDirect")

\* initializeConnection: the callback of the first status probe.
\* resp: "status", "nosession", "error".
InitCallback(s, i, resp, st) ==
    CASE resp = "status" -> ConnectEstablished(s, i, st)
      [] resp = "nosession" -> SetPc(Send(s, "playDummy", Undefined), i, "cDummyPlay")
      [] OTHER -> AttemptDirectConnection(s, i)

DummyPlayCallback(s, i, resp) ==
    IF resp = "error" THEN AttemptDirectConnection(s, i) ELSE SetPc(s, i, "cDummyTimer")

DummyTimer(s, i) == SetPc(Send(s, "stop", Undefined), i, "cDummyStop")

DummyStopCallback(s, i) == SetPc(Send(s, "getStatus", Undefined), i, "cDummyStatus")

DummyStatusCallback(s, i, st) == ConnectEstablished(s, i, st)

DirectCallback(s, i, resp, st) ==
    CASE resp = "status" -> ConnectEstablished(s, i, st)
      [] resp = "nosession" -> SetPc(s, i, "cRetryTimer")
      [] OTHER -> ConnectFail(Disconnect(s), i, "Failed to get status on connect")

RetryTimer(s, i) == SetPc(Send(s, "getStatus", Undefined), i, "cRetry")

RetryCallback(s, i, resp, st) ==
    IF resp = "status" THEN ConnectEstablished(s, i, st)
    ELSE ConnectFail(Disconnect(s), i, "Failed to establish connection")

\* The 15 s timer of the connection.
ConnectTimeout(s, i) == ConnectFail(Disconnect(s), i, "Connection timed out")


\* ------------------------------------------------------------ auto-advance
\* _executeAdvancement, up to its first await (isAutoAdvancing is set by the
\* caller).  A TypeError on an undefined track is caught by its catch.
ExecuteAdvancement(s) ==
    LET queueBackup  == s.queue
        currentIndex == s.currentTrackIndex
        finally      == [s EXCEPT !.isAutoAdvancing = FALSE]
    IN IF s.repeat = "one" /\ currentIndex >= 0
       THEN IF TrackAt(queueBackup, currentIndex) = Undefined THEN finally
            ELSE PlayTrackWithRecovery(s, "advance", TrackAt(queueBackup, currentIndex),
                                       queueBackup, currentIndex, FALSE)
       ELSE IF currentIndex < Len(queueBackup) - 1
       THEN IF TrackAt(queueBackup, currentIndex + 1) = Undefined THEN finally
            ELSE PlayTrackWithRecovery(
                   [s EXCEPT !.currentTrackIndex = currentIndex + 1], "advance",
                   TrackAt(queueBackup, currentIndex + 1), queueBackup,
                   currentIndex + 1, FALSE)
       ELSE IF s.repeat = "all" /\ Len(queueBackup) > 0
       THEN PlayTrackWithRecovery([s EXCEPT !.currentTrackIndex = 0], "advance",
                                  queueBackup[1], queueBackup, 0, FALSE)
       ELSE finally

\* playMedia called by the 'finished' handler for the track at currentTrackIndex.
FinishedPlay(s) ==
    LET i == NewId(s)
        t == [NoTask EXCEPT !.kind = "finished", !.pc = "run",
                            !.track = TrackAt(s.queue, s.currentTrackIndex),
                            !.trackIndex = s.currentTrackIndex, !.forceStop = TRUE]
    IN IF t.track = Undefined THEN [s EXCEPT !.isAutoAdvancing = FALSE]
       ELSE IF i = 0 THEN [s EXCEPT !.overflow = TRUE]
       ELSE PlayMedia(SetTask(s, i, t), i)

\* _handleTrackFinished without the wrap of repeat 'all'.
HandleTrackFinishedNoWrap(s) ==
    IF s.isAutoAdvancing THEN s
    ELSE LET s1 == [s EXCEPT !.isAutoAdvancing = TRUE]
         IN IF s1.repeat = "one" /\ s1.currentTrackIndex >= 0
            THEN FinishedPlay(s1)
            ELSE IF Len(s1.queue) > 0 /\ s1.currentTrackIndex < Len(s1.queue) - 1
            THEN FinishedPlay([s1 EXCEPT !.currentTrackIndex = @ + 1])
            ELSE [s1 EXCEPT !.isAutoAdvancing = FALSE]

\* _handleTrackFinished wrapping to index 0 without its test of the queue length.
HandleTrackFinishedWrapEmpty(s) ==
    IF s.isAutoAdvancing THEN s
    ELSE LET s1 == [s EXCEPT !.isAutoAdvancing = TRUE]
         IN IF s1.repeat = "one" /\ s1.currentTrackIndex >= 0
            THEN FinishedPlay(s1)
            ELSE IF Len(s1.queue) > 0 /\ s1.currentTrackIndex < Len(s1.queue) - 1
            THEN FinishedPlay([s1 EXCEPT !.currentTrackIndex = @ + 1])
            ELSE IF s1.repeat = "all"
            THEN FinishedPlay([s1 EXCEPT !.currentTrackIndex = 0])
            ELSE [s1 EXCEPT !.isAutoAdvancing = FALSE]

\* _handleTrackFinished, up to its first await.
HandleTrackFinished(s) ==
    IF s.isAutoAdvancing THEN s
    ELSE LET s1 == [s EXCEPT !.isAutoAdvancing = TRUE]
         IN IF s1.repeat = "one" /\ s1.currentTrackIndex >= 0
            THEN FinishedPlay(s1)
            ELSE IF Len(s1.queue) > 0 /\ s1.currentTrackIndex < Len(s1.queue) - 1
            THEN FinishedPlay([s1 EXCEPT !.currentTrackIndex = @ + 1])
            ELSE IF s1.repeat = "all" /\ Len(s1.queue) > 0
            THEN FinishedPlay([s1 EXCEPT !.currentTrackIndex = 0])
            ELSE [s1 EXCEPT !.isAutoAdvancing = FALSE]

\* _preloadNextTrack: schedules the 1 s timer of the preload.
PreloadNextTrack(s) ==
    LET nextIndex == s.currentTrackIndex + 1
        i == NewId(s)
        t == [NoTask EXCEPT !.kind = "preload", !.pc = "preloadTimer",
                            !.track = TrackAt(s.queue, nextIndex),
                            !.trackIndex = nextIndex]
    IN IF nextIndex >= Len(s.queue) \/ t.track = Undefined
       THEN [s EXCEPT !.preloadInProgress = FALSE]
       ELSE SetTask(s, i, t)

\* The timer of the preload, after the device recovery if there was one.
PreloadGo(s, i) ==
    IF s.currentDevice = Null
    THEN EndTask([s EXCEPT !.preloadInProgress = FALSE], i)
    ELSE SetPc(Send(s, "playPreload", s.tasks[i].track), i, "preloadLoad")

\* The 1 s timer of the preload fires.
PreloadTimer(s, i) ==
    IF s.currentDevice = Null /\ s.savedDevice # Null    \* _attemptDeviceRecovery
    THEN ConnectToDevice(s, i, s.savedDevice, "preload")
    ELSE PreloadGo(s, i)

\* The callback of the preload's load without the finally of the timer body
\* when the load fails.
PreloadCallbackNoFinally(s, i, resp) ==
    IF resp = "error" THEN EndTask(s, i)
    ELSE SetTask([s EXCEPT !.preloadInProgress = FALSE], i,
                 [s.tasks[i] EXCEPT !.kind = "watch", !.pc = "watchTimer"])

\* The callback of the preload's load: on success _setupSeamlessTransition
\* schedules the first check of the watch.
PreloadCallback(s, i, resp) ==
    LET s1 == [s EXCEPT !.preloadInProgress = FALSE]      \* finally
    IN IF resp = "error" THEN EndTask(s1, i)
       ELSE SetTask(s1, i, [s1.tasks[i] EXCEPT !.kind = "watch", !.pc = "watchTimer"])

\* _verifyAndContinuePlayback, up to its first await.
VerifyAndContinuePlayback(s, i) ==
    IF s.currentStatus.playerState # "PLAYING"
    THEN PlayMedia(SetTask(s, i, [s.tasks[i] EXCEPT !.kind = "seamless", !.pc = "run",
                                                    !.forceStop = FALSE]), i)
    ELSE EndTask([s EXCEPT !.isAutoAdvancing = FALSE], i)

\* checkForTransition: one check of the seamless-transition watch.
CheckForTransition(s, i) ==
    LET nextIndex == s.tasks[i].trackIndex
        st == s.currentStatus
    IN IF s.isAutoAdvancing THEN EndTask(s, i)
       ELSE IF st.media.present /\ st.media.duration # 0
               /\ (st.media.duration - st.currentTime <= 2 \/ st.playerState = "IDLE")
       THEN VerifyAndContinuePlayback(
              [s EXCEPT !.isAutoAdvancing = TRUE, !.currentTrackIndex = nextIndex], i)
       ELSE IF s.currentTrackIndex < nextIndex THEN s     \* the timer is set again
       ELSE EndTask(s, i)

\* _handleTrackTransition without the isAutoAdvancing test of the fallback.
HandleTrackTransitionUnguarded(s, previousState, currentState, status) ==
    LET shouldPreload ==
            /\ status.media.present /\ status.media.duration # 0
            /\ status.media.duration > 0
            /\ 10 * status.currentTime >= 7 * status.media.duration
            /\ Len(s.queue) > 0 /\ s.currentTrackIndex >= 0
            /\ s.currentTrackIndex < Len(s.queue) - 1
            /\ ~s.isAutoAdvancing /\ ~s.preloadInProgress
        shouldAdvanceTraditional ==
            /\ previousState = "PLAYING" /\ currentState \in {"IDLE", "BUFFERING"}
            /\ Len(s.queue) > 0 /\ s.currentTrackIndex >= 0
        s1 == IF shouldPreload
              THEN PreloadNextTrack([s EXCEPT !.preloadInProgress = TRUE])
              ELSE s
    IN IF shouldAdvanceTraditional
       THEN ExecuteAdvancement([s1 EXCEPT !.isAutoAdvancing = TRUE])
       ELSE s1

\* _handleTrackTransition
HandleTrackTransition(s, previousState, currentState, status) ==
    LET shouldPreload ==
            /\ status.media.present /\ status.media.duration # 0
            /\ status.media.duration > 0
            /\ 10 * status.currentTime >= 7 * status.media.duration
            /\ Len(s.queue) > 0 /\ s.currentTrackIndex >= 0
            /\ s.currentTrackIndex < Len(s.queue) - 1
            /\ ~s.isAutoAdvancing /\ ~s.preloadInProgress
        isStateTransition ==
            previousState = "PLAYING" /\ currentState \in {"IDLE", "BUFFERING"}
        shouldAdvanceTraditional ==
            /\ isStateTransition /\ Len(s.queue) > 0
            /\ s.currentTrackIndex >= 0 /\ ~s.isAutoAdvancing
        s1 == IF shouldPreload
              THEN PreloadNextTrack([s EXCEPT !.preloadInProgress = TRUE])
              ELSE s
    IN IF shouldAdvanceTraditional
       THEN ExecuteAdvancement([s1 EXCEPT !.isAutoAdvancing = TRUE])
       ELSE s1

\* _handleStatusUpdate(device, status)
HandleStatusUpdate(s, device, status) ==
    IF s.currentDevice # Null /\ device = s.currentDevice
    THEN IF status = NoStatus THEN s
         ELSE LET previousState == s.currentStatus.playerState
                  s1 == [s EXCEPT !.currentStatus = status, !.savedDevice = device]
              IN IF s1.sessionWarmupInProgress THEN s1
                 ELSE HandleTrackTransition(s1, previousState, status.playerState, status)
    ELSE s


\* ------------------------------------------------------------ user commands
NoDevice == "No device connected"
NoDeviceOrEmpty == "No device connected or empty queue"

\* The pseudo-invocation of a command that returns in the step that calls it.
Call(trackIndex, track) == [NoTask EXCEPT !.trackIndex = trackIndex, !.track = track]

\* A skip command sets currentTrackIndex, then awaits playMedia(track, forceStop).
SkipTo(s, kind, index) ==
    LET i  == NewId(s)
        s1 == [s EXCEPT !.currentTrackIndex = index]
        t  == [NoTask EXCEPT !.kind = kind, !.pc = "run", !.track = TrackAt(s.queue, index),
                             !.trackIndex = index, !.forceStop = TRUE]
    IN IF t.track = Undefined      \* TypeError on track.url, caught by the command
       THEN Return(s1, kind, "error", "TypeError", Call(index, Undefined))
       ELSE IF i = 0 THEN [s EXCEPT !.overflow = TRUE]
       ELSE PlayMedia(SetTask(s1, i, t), i)

\* skipToNext()
SkipToNext(s) ==
    IF s.currentDevice = Null
    THEN Return(s, "skipToNext", "error", NoDevice, Call(-1, Undefined))
    ELSE IF Len(s.queue) > 0 /\ s.currentTrackIndex < Len(s.queue) - 1
    THEN SkipTo(s, "skipToNext", s.currentTrackIndex + 1)
    ELSE IF s.currentStatus.playerState = "PLAYING"
    THEN Return(Send(s, "stop", Undefined), "skipToNext", "success", Ok,
                Call(-1, Undefined))
    ELSE Return(s, "skipToNext", "info", Ok, Call(-1, Undefined))

\* skipToPrevious()
SkipToPrevious(s) ==
    IF s.currentDevice = Null
    THEN Return(s, "skipToPrevious", "error", NoDevice, Call(-1, Undefined))
    ELSE IF Len(s.queue) > 0 /\ s.currentTrackIndex > 0
    THEN SkipTo(s, "skipToPrevious", s.currentTrackIndex - 1)
    ELSE Return(s, "skipToPrevious", "info", Ok, Call(-1, Undefined))

\* skipToTrack(trackNumber) without its test of the range.
SkipToTrackUnchecked(s, trackNumber) ==
    IF s.currentDevice = Null
    THEN Return(s, "skipToTrack", "error", NoDevice, Call(-1, Undefined))
    ELSE SkipTo(s, "skipToTrack", trackNumber - 1)

\* skipToTrack(trackNumber)
SkipToTrack(s, trackNumber) ==
    LET targetIndex == trackNumber - 1
    IN IF s.currentDevice = Null
       THEN Return(s, "skipToTrack", "error", NoDevice, Call(-1, Undefined))
       ELSE IF Len(s.queue) = 0
       THEN Return(s, "skipToTrack", "error", "Queue is empty", Call(-1, Undefined))
       ELSE IF targetIndex < 0 \/ targetIndex >= Len(s.queue)
       THEN Return(s, "skipToTrack", "error", "Invalid track number", Call(-1, Undefined))
       ELSE SkipTo(s, "skipToTrack", targetIndex)

\* playMedia(url, contentType, title) called by the controller for one track.
PlayMediaCommand(s, track) ==
    LET i == NewId(s)
        t == [NoTask EXCEPT !.kind = "playMedia", !.pc = "run", !.track = track,
                            !.forceStop = TRUE]
    IN IF s.currentDevice = Null
       THEN Return(s, "playMedia", "error", NoDevice, Call(-1, track))
       ELSE IF i = 0 THEN [s EXCEPT !.overflow = TRUE]
       ELSE PlayMedia(SetTask(s, i, t), i)

\* _requestStatusUpdate: the answer, when it comes, is handled like a pushed
\* status of the current device (StatusEvent).
RequestStatusUpdate(s) ==
    IF s.currentDevice # Null THEN Send(s, "getStatus", Undefined) ELSE s

\* pause(), resume(), seek(position): player.<cmd>() returns ("ok") or throws.
PlayerCommand(s, cmd, resp) ==
    IF s.currentDevice = Null
    THEN Return(s, cmd, "error", NoDevice, Call(-1, Undefined))
    ELSE IF resp = "error"
    THEN Return(s, cmd, "error", "failed", Call(-1, Undefined))
    ELSE LET s1 == Send(s, cmd, Undefined)
             s2 == CASE cmd = "pause" ->
                          RequestStatusUpdate(
                            [s1 EXCEPT !.currentStatus.playerState = "PAUSED"])
                      [] cmd = "resume" ->
                          RequestStatusUpdate(
                            [s1 EXCEPT !.currentStatus.playerState = "PLAYING"])
                      [] OTHER -> s1
         IN Return(s2, cmd, "success", Ok, Call(-1, Undefined))

\* stop() without its test of the connection.
StopUnchecked(s, resp) ==
    IF resp = "error"
    THEN Return(s, "stop", "error", "failed", Call(-1, Undefined))
    ELSE Return(RequestStatusUpdate(
                  [Send(s, "stop", Undefined) EXCEPT
                     !.currentStatus.playerState = "IDLE",
                     !.currentStatus.currentTime = 0,
                     !.currentStatus.media = NoMedia,
                     !.currentTrackIndex = -1]),
                "stop", "success", Ok, Call(-1, Undefined))

\* stop()
Stop(s, resp) ==
    IF s.currentDevice = Null
    THEN Return(s, "stop", "error", NoDevice, Call(-1, Undefined))
    ELSE IF resp = "error"
    THEN Return(s, "stop", "error", "failed", Call(-1, Undefined))
    ELSE Return(RequestStatusUpdate(
                  [Send(s, "stop", Undefined) EXCEPT
                     !.currentStatus.playerState = "IDLE",
                     !.currentStatus.currentTime = 0,
                     !.currentStatus.media = NoMedia,
                     !.currentTrackIndex = -1]),
                "stop", "success", Ok, Call(-1, Undefined))

\* setVolume(level), up to the await of device.setVolume.
SetVolume(s) ==
    LET i == NewId(s)
        t == [NoTask EXCEPT !.kind = "setVolume", !.pc = "volume"]
    IN IF s.currentDevice = Null
       THEN Return(s, "setVolume", "error", NoDevice, Call(-1, Undefined))
       ELSE SetTask(Send(s, "setVolume", Undefined), i, t)

\* setVolume: the callback of device.setVolume.
VolumeCallback(s, i, resp) ==
    IF resp = "error"
    THEN EndTask(Return(s, "setVolume", "error", "failed", s.tasks[i]), i)
    ELSE EndTask(Return(RequestStatusUpdate(
                          [s EXCEPT !.currentStatus.volume = "number"]),
                        "setVolume", "success", Ok, s.tasks[i]), i)

\* Every suspended invocation holding a reference to the array this.queue
\* sees an in-place change of it; an assignment to this.queue ends the sharing.
WithQueue(s, q, inPlace) ==
    [s EXCEPT !.queue = q,
              !.tasks = [j \in TaskIds |->
                  IF s.tasks[j].alias
                  THEN IF inPlace THEN [s.tasks[j] EXCEPT !.queueBackup = q]
                       ELSE [s.tasks[j] EXCEPT !.alias = FALSE]
                  ELSE s.tasks[j]]]

\* addToQueue(tracks), up to the await of queueLoad.
AddToQueue(s, tracks) ==
    LET i == NewId(s)
        t == [NoTask EXCEPT !.kind = "addToQueue", !.pc = "queueLoad",
                            !.queueBackup = tracks]
    IN IF s.currentDevice = Null
       THEN Return(s, "addToQueue", "error", NoDevice, Call(-1, Undefined))
       ELSE SetTask(Send(s, "queueLoad", Undefined), i, t)

\* addToQueue: the callback of queueLoad; on an error _fallbackToLegacyQueue
\* makes the same assignments.
QueueLoadCallback(s, i, resp) ==
    EndTask(Return([WithQueue(s, s.tasks[i].queueBackup, FALSE) EXCEPT
                      !.currentTrackIndex = 0],
                   "addToQueue", "success", Ok, s.tasks[i]), i)

\* playQueue(startIndex), up to its first await.
PlayQueue(s, startIndex) ==
    LET i == NewId(s)
        t == [NoTask EXCEPT !.kind = "playQueue", !.pc = "run", !.trackIndex = startIndex]
    IN IF s.currentDevice = Null \/ Len(s.queue) = 0
       THEN Return(s, "playQueue", "error", NoDeviceOrEmpty, Call(-1, Undefined))
       ELSE IF startIndex < 0 \/ startIndex >= Len(s.queue)
       THEN Return(s, "playQueue", "error", "Invalid start index", Call(-1, Undefined))
       ELSE IF i = 0 THEN [s EXCEPT !.overflow = TRUE]
       ELSE IF startIndex > 0
       THEN SetTask(Send(s, "queueJumpToItem", Undefined), i, [t EXCEPT !.pc = "queueJump"])
       ELSE EnsureSessionActive(SetTask(s, i, t), i)

\* playQueue: the callback of queueJumpToItem; on an error
\* _playLegacyQueueTrack plays the track itself.
QueueJumpCallback(s, i, resp) ==
    LET t == s.tasks[i]
        s1 == [s EXCEPT !.currentTrackIndex = t.trackIndex]
    IN IF resp = "ok"
       THEN EndTask(Return(s1, "playQueue", "success", Ok, t), i)
       ELSE IF TrackAt(s.queue, t.trackIndex) = Undefined
       THEN EndTask(Return(s1, "playQueue", "error", "TypeError", t), i)
       ELSE PlayMedia(SetTask(s1, i, [t EXCEPT !.kind = "playLegacy",
                                               !.track = TrackAt(s.queue, t.trackIndex),
                                               !.forceStop = TRUE, !.pc = "run"]), i)

\* clearQueue()
ClearQueue(s) ==
    Return([WithQueue(s, <<>>, FALSE) EXCEPT !.currentTrackIndex = -1,
                                            !.originalQueue = <<>>],
           "clearQueue", "success", Ok, Call(-1, Undefined))

\* q without its entry at 0-based index
RemoveAt(q, index) == [k \in 1..(Len(q) - 1) |-> IF k <= index THEN q[k] ELSE q[k + 1]]

Max(a, b) == IF a >= b THEN a ELSE b

\* removeFromQueue(index)
RemoveFromQueue(s, index) ==
    IF index < 0 \/ index >= Len(s.queue)
    THEN Return(s, "removeFromQueue", "error", "Invalid queue index", Call(-1, Undefined))
    ELSE LET s1 == WithQueue(s, RemoveAt(s.queue, index), TRUE)
             s2 == IF s1.currentTrackIndex >= index
                   THEN [s1 EXCEPT !.currentTrackIndex = Max(-1, @ - 1)]
                   ELSE s1
         IN Return(s2, "removeFromQueue", "success", Ok, Call(-1, Undefined))

\* The orders a Fisher-Yates shuffle of q can produce: every permutation.
Shuffles(q) ==
    {[k \in 1..Len(q) |-> q[p[k]]] :
        p \in {f \in [1..Len(q) -> 1..Len(q)] : \A a, b \in 1..Len(q) : a # b => f[a] # f[b]}}

\* shuffleQueue() taking its snapshot at every call.
ShuffleQueueResnapshot(s, shuffled) ==
    IF Len(s.queue) <= 1
    THEN Return(s, "shuffleQueue", "info", Ok, Call(-1, Undefined))
    ELSE Return([WithQueue([s EXCEPT !.originalQueue = s.queue], shuffled, TRUE)
                   EXCEPT !.shuffle = TRUE, !.currentTrackIndex = -1],
                "shuffleQueue", "success", Ok, Call(-1, Undefined))

\* shuffleQueue() without its test of the queue length.
ShuffleQueueAnySize(s, shuffled) ==
    LET s1 == IF ~s.shuffle THEN [s EXCEPT !.originalQueue = s.queue] ELSE s
    IN Return([WithQueue(s1, shuffled, TRUE) EXCEPT !.shuffle = TRUE,
                                                   !.currentTrackIndex = -1],
              "shuffleQueue", "success", Ok, Call(-1, Undefined))

\* shuffleQueue(), the random draws giving the order `shuffled`
ShuffleQueue(s, shuffled) ==
    IF Len(s.queue) <= 1
    THEN Return(s, "shuffleQueue", "info", Ok, Call(-1, Undefined))
    ELSE LET s1 == IF ~s.shuffle THEN [s EXCEPT !.originalQueue = s.queue] ELSE s
         IN Return([WithQueue(s1, shuffled, TRUE) EXCEPT !.shuffle = TRUE,
                                                        !.currentTrackIndex = -1],
                   "shuffleQueue", "success", Ok, Call(-1, Undefined))

\* restoreQueueOrder()
RestoreQueueOrder(s) ==
    IF ~s.shuffle \/ Len(s.originalQueue) = 0
    THEN Return(s, "restoreQueueOrder", "info", Ok, Call(-1, Undefined))
    ELSE Return([WithQueue(s, s.originalQueue, FALSE) EXCEPT !.shuffle = FALSE,
                                                           !.currentTrackIndex = -1],
                "restoreQueueOrder", "success", Ok, Call(-1, Undefined))

\* setRepeatMode(mode) without its test of the mode.
SetRepeatModeUnchecked(s, mode) ==
    Return([s EXCEPT !.repeat = mode], "setRepeatMode", "success", Ok, Call(-1, Undefined))

\* setRepeatMode(mode)
SetRepeatMode(s, mode) ==
    IF mode \notin {"none", "one", "all"}
    THEN Return(s, "setRepeatMode", "error", "Invalid repeat mode", Call(-1, Undefined))
    ELSE Return([s EXCEPT !.repeat = mode], "setRepeatMode", "success", Ok,
                Call(-1, Undefined))

\* connectToDevice(deviceName) called by the user
Connect(s, name) ==
    LET i == NewId(s)
        t == [NoTask EXCEPT !.kind = "connectToDevice", !.pc = "run"]
    IN IF i = 0 THEN [s EXCEPT !.overflow = TRUE]
       ELSE ConnectToDevice(SetTask(s, i, t), i, name, "user")


\* ------------------------------------------------- ChromecastServiceQueue
\* The second implementation of the service, the one index.js constructs.
\* Only its session is modelled: the connection, the state the player's
\* events maintain, and disconnect.  Its calls do not overlap.
NoItem == 0         \* currentItemId: null
ItemIds == 1..MaxQueue

\* _getDefaultStatus()
QueueServiceDefaultStatus == [playerState |-> "IDLE", currentItemId |-> NoItem]

\* The constructor.
QueueServiceConstructed ==
    [devices |-> {}, client |-> FALSE, player |-> FALSE, currentDevice |-> Null,
     currentStatus |-> QueueServiceDefaultStatus, queueItems |-> <<>>,
     currentItemId |-> NoItem, savedDevice |-> Null, pc |-> "idle", name |-> Null]

\* ChromecastServiceQueue.disconnect()
QueueServiceDisconnect(s) ==
    [s EXCEPT !.queueService =
        [@ EXCEPT !.player = FALSE, !.client = FALSE, !.currentDevice = Null,
                  !.currentStatus = QueueServiceDefaultStatus,
                  !.queueItems = <<>>, !.currentItemId = NoItem]]

\* The catch of ChromecastServiceQueue.connectToDevice: disconnect, rethrow.
QueueServiceConnectFail(s, err) ==
    LET s1 == QueueServiceDisconnect(s)
    IN [s1 EXCEPT !.queueService = [@ EXCEPT !.pc = "idle"],
                  !.outcome = @ \cup {Outcome("queueService.connectToDevice", "error",
                                              err, Call(-1, Undefined), s.queueService.name)}]

\* ChromecastServiceQueue.connectToDevice once discovery has answered.
QueueServiceConnectFound(s) ==
    LET name == s.queueService.name
    IN IF name \notin s.queueService.devices
       THEN QueueServiceConnectFail(s, "Device not found")
       ELSE LET s1 == IF s.queueService.client THEN QueueServiceDisconnect(s) ELSE s
            IN [s1 EXCEPT !.queueService = [@ EXCEPT !.client = TRUE,
                                                     !.currentDevice = name,
                                                     !.pc = "connect"]]

\* ChromecastServiceQueue.connectToDevice(deviceName)
QueueServiceConnectToDevice(s, name) ==
    LET s1 == [s EXCEPT !.queueService = [@ EXCEPT !.name = name]]
    IN IF name = ""
       THEN QueueServiceConnectFail(s1, "deviceName must be a non-empty string")
       ELSE IF name \in s1.queueService.devices \/ s1.queueService.devices # {}
       THEN QueueServiceConnectFound(s1)
       ELSE [s1 EXCEPT !.queueService = [@ EXCEPT !.pc = "discover"]]

\* client.connect answered, failed or timed out.
QueueServiceConnectCallback(s, resp) ==
    IF resp = "error" THEN QueueServiceConnectFail(s, "Connection failed")
    ELSE [s EXCEPT !.queueService = [@ EXCEPT !.pc = "launch"]]

\* client.launch answered, failed or timed out.
QueueServiceLaunchCallback(s, resp) ==
    IF resp = "error" THEN QueueServiceConnectFail(s, "Failed to launch receiver")
    ELSE [s EXCEPT !.queueService = [@ EXCEPT !.player = TRUE, !.pc = "idle",
                                              !.savedDevice = s.queueService.name],
                   !.outcome = @ \cup {Outcome("queueService.connectToDevice", "success",
                                               Ok, Call(-1, Undefined),
                                               s.queueService.name)}]


\* ---------------------------------------------------------- _sanitizeStatus
\* JavaScript values: a type tag and, for a primitive, its text.
JsUndefined == [type |-> "undefined", v |-> ""]
JsNull == [type |-> "null", v |-> ""]
JsNumber(v) == [type |-> "number", v |-> v]
JsString(v) == [type |-> "string", v |-> v]
JsBoolean(v) == [type |-> "boolean", v |-> v]
JsVolume(level, muted) == [type |-> "object", level |-> level, muted |-> muted]
\* (media.contentType is handled as contentId is; media.metadata is left out)
JsMedia(contentId, duration) ==
    [type |-> "object", contentId |-> contentId, duration |-> duration]
JsStatus(mediaSessionId, playbackRate, playerState, currentTime, volume, media) ==
    [type |-> "object", mediaSessionId |-> mediaSessionId,
     playbackRate |-> playbackRate, playerState |-> playerState,
     currentTime |-> currentTime, volume |-> volume, media |-> media]

\* typeof x
TypeOf(x) == IF x.type = "null" THEN "object" ELSE x.type

\* !!x
Truthy(x) ==
    /\ x.type \notin {"undefined", "null"}
    /\ x.type \in {"number", "string", "boolean"} => x.v \notin {"0", "", "false"}

\* x || y
OrElse(x, y) == IF Truthy(x) THEN x ELSE y

\* ChromecastService._sanitizeStatus(status).  No property read of a plain
\* payload throws, so the catch is not taken.
SanitizeStatus(status) ==
    IF ~Truthy(status) \/ TypeOf(status) # "object"
    THEN JsStatus(JsNull, JsNumber("1"), JsString("IDLE"), JsNumber("0"), JsNull, JsNull)
    ELSE JsStatus(
        IF status.mediaSessionId.type \notin {"undefined", "null"}
            THEN status.mediaSessionId ELSE JsNull,
        IF TypeOf(status.playbackRate) = "number" THEN status.playbackRate
            ELSE JsNumber("1"),
        IF TypeOf(status.playerState) = "string" THEN status.playerState
            ELSE JsString("IDLE"),
        IF TypeOf(status.currentTime) = "number" THEN status.currentTime
            ELSE JsNumber("0"),
        IF Truthy(status.volume) /\ TypeOf(status.volume) = "object"
            THEN JsVolume(IF TypeOf(status.volume.level) = "number"
                              THEN status.volume.level ELSE JsNumber("0"),
                          IF TypeOf(status.volume.muted) = "boolean"
                              THEN status.volume.muted ELSE JsBoolean("false"))
            ELSE IF TypeOf(status.volume) = "number"
            THEN JsVolume(status.volume, JsBoolean("false"))
            ELSE JsNull,
        IF Truthy(status.media) /\ TypeOf(status.media) = "object"
            THEN JsMedia(OrElse(status.media.contentId, JsNull),
                         IF TypeOf(status.media.duration) = "number"
                             THEN status.media.duration ELSE JsNull)
            ELSE JsNull)

\* ChromecastServiceQueue._sanitizeStatus(status); its four queue fields
\* (currentItemId, loadingItemId, preloadedItemId, repeatMode) are left out.
QueueServiceSanitizeStatus(status) ==
    IF ~Truthy(status) \/ TypeOf(status) # "object"
    THEN JsStatus(JsNull, JsNumber("1"), JsString("IDLE"), JsNumber("0"), JsNull, JsNull)
    ELSE JsStatus(OrElse(status.mediaSessionId, JsNull),
                  OrElse(status.playbackRate, JsNumber("1")),
                  OrElse(status.playerState, JsString("IDLE")),
                  OrElse(status.currentTime, JsNumber("0")),
                  OrElse(status.volume, JsNull),
                  OrElse(status.media, JsNull))


\* ------------------------------------------------------------------ actions
At(i, pcs) == tasks[i].pc \in pcs

\* A user command that suspends may be called.
MayCall == Cardinality({i \in TaskIds : tasks[i].kind \in UserKinds}) < MaxCalls

Responses == {"ok", "error"}
StatusResponses == {"status", "nosession", "error"}

\* -- the user
CallConnect == \E name \in DeviceNames \cup {"", "unknown"} :
    MayCall /\ Commit(Connect(St, name))
CallDisconnect == Commit(Return(Disconnect(St), "disconnect", "success", Ok,
                                Call(-1, Undefined)))
CallPlayMedia == \E track \in Tracks : MayCall /\ Commit(PlayMediaCommand(St, track))
CallSkipToNext == MayCall /\ Commit(SkipToNext(St))
CallSkipToPrevious == MayCall /\ Commit(SkipToPrevious(St))
CallSkipToTrack == \E n \in 0..(MaxQueue + 1) : MayCall /\ Commit(SkipToTrack(St, n))
CallPlayerCommand == \E cmd \in {"pause", "resume", "seek"}, resp \in Responses :
    Commit(PlayerCommand(St, cmd, resp))
CallStop == \E resp \in Responses : Commit(Stop(St, resp))
CallSetVolume == MayCall /\ Commit(SetVolume(St))
CallAddToQueue == \E tracks \in Queues : MayCall /\ Commit(AddToQueue(St, tracks))
CallPlayQueue == \E k \in -1..MaxQueue : MayCall /\ Commit(PlayQueue(St, k))
CallClearQueue == Commit(ClearQueue(St))
CallRemoveFromQueue == \E k \in -1..MaxQueue : Commit(RemoveFromQueue(St, k))
CallShuffleQueue == \E q \in Shuffles(queue) : Commit(ShuffleQueue(St, q))
CallRestoreQueueOrder == Commit(RestoreQueueOrder(St))
CallSetRepeatMode == \E mode \in RepeatModes \cup {"shuffle"} : Commit(SetRepeatMode(St, mode))

\* -- the device and the network
DeviceDiscovered == \E d \in DeviceNames :
    /\ d \notin devices
    /\ Commit([St EXCEPT !.devices = @ \cup {d}])
StatusEvent == \E d \in devices, st \in StateStatuses :
    /\ currentDevice = d
    /\ Commit(HandleStatusUpdate(St, d, st))
ProgressEvent == \E d \in devices, st \in ProgressStatuses :
    /\ currentDevice = d
    /\ Commit(HandleStatusUpdate(St, d, st))
\* The device reports IDLE with no media, as it does once a track has ended.
IdleEvent == \E d \in devices :
    /\ currentDevice = d
    /\ Commit(HandleStatusUpdate(St, d, DefaultStatus))
\* The device pushes an object that is not a well-formed media status.
MalformedEvent == \E d \in devices :
    /\ currentDevice = d
    /\ Commit(HandleStatusUpdate(St, d, MalformedStatus))
\* The end of the track that plays, reported once by the 'finished' event
\* and once by a status IDLE.
TrackEndFinished == \E d \in devices :
    /\ currentDevice = d /\ "finished" \notin reported
    /\ Commit([HandleTrackFinished(St) EXCEPT !.reported = @ \cup {"finished"}])
TrackEndIdle == \E d \in devices, m \in {Media, NoMedia} :
    /\ currentDevice = d /\ "idle" \notin reported
    /\ Commit([HandleStatusUpdate(St, d, MkStatus("IDLE", 0, m))
                  EXCEPT !.reported = @ \cup {"idle"}])
\* The device reports that the track it was given plays.
PlayingEvent == \E d \in devices :
    /\ currentDevice = d
    /\ Commit(HandleStatusUpdate(St, d, MkStatus("PLAYING", 0, Media)))
FinishedEvent == \E d \in devices :
    /\ currentDevice = d
    /\ Commit(HandleTrackFinished(St))
DisconnectEvent == \E d \in devices :
    /\ currentDevice = d
    /\ Commit([St EXCEPT !.currentDevice = Null, !.currentStatus = DefaultStatus])
ConnectionStateExpires ==
    /\ savedDevice # Null
    /\ Commit([St EXCEPT !.savedDevice = Null])

\* -- callbacks of device calls
EnsureCb == \E i \in TaskIds, resp \in StatusResponses \cup {"nostatus"} :
    At(i, {"ensure"}) /\ Commit(EnsureCallback(St, i, resp))
WarmPlayCb == \E i \in TaskIds, resp \in Responses :
    At(i, {"warmPlay"}) /\ Commit(WarmPlayCallback(St, i, resp))
WarmStopCb == \E i \in TaskIds : At(i, {"warmStop"}) /\ Commit(WarmStopCallback(St, i))
WarmStatusCb == \E i \in TaskIds : At(i, {"warmStatus"}) /\ Commit(WarmStatusCallback(St, i))
StopCb == \E i \in TaskIds : At(i, {"stop"}) /\ Commit(StopCallback(St, i))
LoadCb == \E i \in TaskIds, resp \in Responses :
    At(i, {"load"}) /\ Commit(LoadCallback(St, i, resp))
VerifyPollCb == \E i \in TaskIds, st \in DeviceStatuses \cup {NoStatus} :
    At(i, {"verifyPoll"}) /\ Commit(VerifyPollCallback(St, i, st))
PreloadCb == \E i \in TaskIds, resp \in Responses :
    At(i, {"preloadLoad"}) /\ Commit(PreloadCallback(St, i, resp))
VolumeCb == \E i \in TaskIds, resp \in Responses :
    At(i, {"volume"}) /\ Commit(VolumeCallback(St, i, resp))
QueueLoadCb == \E i \in TaskIds, resp \in Responses :
    At(i, {"queueLoad"}) /\ Commit(QueueLoadCallback(St, i, resp))
QueueJumpCb == \E i \in TaskIds, resp \in Responses :
    At(i, {"queueJump"}) /\ Commit(QueueJumpCallback(St, i, resp))
HealthCb == \E i \in TaskIds, resp \in Responses :
    At(i, {"cHealth"}) /\ Commit(HealthCallback(St, i, resp))
InitCb == \E i \in TaskIds, resp \in StatusResponses, st \in DeviceStatuses \cup {NoStatus} :
    At(i, {"cInit"}) /\ Commit(InitCallback(St, i, resp, st))
DummyPlayCb == \E i \in TaskIds, resp \in Responses :
    At(i, {"cDummyPlay"}) /\ Commit(DummyPlayCallback(St, i, resp))
DummyStopCb == \E i \in TaskIds : At(i, {"cDummyStop"}) /\ Commit(DummyStopCallback(St, i))
DummyStatusCb == \E i \in TaskIds, st \in DeviceStatuses \cup {NoStatus} :
    At(i, {"cDummyStatus"}) /\ Commit(DummyStatusCallback(St, i, st))
DirectCb == \E i \in TaskIds, resp \in StatusResponses, st \in DeviceStatuses \cup {NoStatus} :
    At(i, {"cDirect"}) /\ Commit(DirectCallback(St, i, resp, st))
RetryCb == \E i \in TaskIds, resp \in {"status", "error"}, st \in DeviceStatuses \cup {NoStatus} :
    At(i, {"cRetry"}) /\ Commit(RetryCallback(St, i, resp, st))

\* -- timers
WarmTimerFires == \E i \in TaskIds : At(i, {"warmTimer"}) /\ Commit(WarmTimer(St, i))
LoadTimeoutFires == \E i \in TaskIds : At(i, {"load"}) /\ Commit(LoadTimeout(St, i))
\* The 250 ms timer of _verifyPlayback fires before the timeout has elapsed
VerifyTimerFires == \E i \in TaskIds :
    At(i, {"verifyDelay", "verifyWait"}) /\ Commit(VerifyTick(St, i, FALSE))
\* ... and once it has.
VerifyTimeoutFires == \E i \in TaskIds :
    At(i, {"verifyWait"}) /\ Commit(VerifyTick(St, i, TRUE))
BackoffFires == \E i \in TaskIds : At(i, {"backoff"}) /\ Commit(Backoff(St, i))
PreloadTimerFires == \E i \in TaskIds : At(i, {"preloadTimer"}) /\ Commit(PreloadTimer(St, i))
WatchTimerFires == \E i \in TaskIds : At(i, {"watchTimer"}) /\ Commit(CheckForTransition(St, i))
DiscoverTimerFires == \E i \in TaskIds : At(i, {"cDiscover"}) /\ Commit(DiscoverTimer(St, i))
DummyTimerFires == \E i \in TaskIds : At(i, {"cDummyTimer"}) /\ Commit(DummyTimer(St, i))
RetryTimerFires == \E i \in TaskIds : At(i, {"cRetryTimer"}) /\ Commit(RetryTimer(St, i))
ConnectTimeoutFires == \E i \in TaskIds :
    /\ At(i, {"cInit", "cDummyPlay", "cDummyTimer", "cDummyStop", "cDummyStatus", "cDirect"})
    /\ Commit(ConnectTimeout(St, i))

\* ------------------------------------------------------------ specification
\* The constructor: _restorePreviousConnection starts a connection in the
\* background when ConnectionManager has a device name on file.
Constructed(saved) ==
    LET s == [devices |-> {}, currentDevice |-> Null, currentStatus |-> DefaultStatus,
              queue |-> <<>>, currentTrackIndex |-> -1, shuffle |-> FALSE,
              repeat |-> "none", originalQueue |-> <<>>, isAutoAdvancing |-> FALSE,
              sessionWarmupInProgress |-> FALSE, preloadInProgress |-> FALSE,
              connectionKeepAlive |-> FALSE, savedDevice |-> saved,
              tasks |-> [i \in TaskIds |-> NoTask],
              queueService |-> QueueServiceConstructed, rawStatus |-> JsUndefined,
              reported |-> {},
              sent |-> {}, outcome |-> {}, overflow |-> FALSE]
    IN IF saved = Null THEN s
       ELSE ConnectToDevice(SetTask(s, 1, [NoTask EXCEPT !.kind = "restore", !.pc = "run"]),
                            1, saved, "restore")

InitFrom(s) ==
    /\ devices = s.devices
    /\ currentDevice = s.currentDevice
    /\ currentStatus = s.currentStatus
    /\ queue = s.queue
    /\ currentTrackIndex = s.currentTrackIndex
    /\ shuffle = s.shuffle
    /\ repeat = s.repeat
    /\ originalQueue = s.originalQueue
    /\ isAutoAdvancing = s.isAutoAdvancing
    /\ sessionWarmupInProgress = s.sessionWarmupInProgress
    /\ preloadInProgress = s.preloadInProgress
    /\ connectionKeepAlive = s.connectionKeepAlive
    /\ savedDevice = s.savedDevice
    /\ tasks = s.tasks
    /\ queueService = s.queueService
    /\ rawStatus = s.rawStatus
    /\ reported = s.reported
    /\ sent = s.sent
    /\ outcome = s.outcome

Init == \E saved \in DeviceNames \cup {Null} : InitFrom(Constructed(saved))

UserNext ==
    \/ CallConnect \/ CallDisconnect \/ CallPlayMedia
    \/ CallSkipToNext \/ CallSkipToPrevious \/ CallSkipToTrack
    \/ CallPlayerCommand \/ CallStop \/ CallSetVolume
    \/ CallAddToQueue \/ CallPlayQueue \/ CallClearQueue \/ CallRemoveFromQueue
    \/ CallShuffleQueue \/ CallRestoreQueueOrder \/ CallSetRepeatMode

DeviceNext ==
    \/ DeviceDiscovered \/ StatusEvent \/ ProgressEvent \/ FinishedEvent \/ DisconnectEvent
    \/ ConnectionStateExpires
    \/ EnsureCb \/ WarmPlayCb \/ WarmStopCb \/ WarmStatusCb \/ StopCb \/ LoadCb
    \/ VerifyPollCb \/ PreloadCb \/ VolumeCb \/ QueueLoadCb \/ QueueJumpCb
    \/ HealthCb \/ InitCb \/ DummyPlayCb \/ DummyStopCb \/ DummyStatusCb
    \/ DirectCb \/ RetryCb

TimerNext ==
    \/ WarmTimerFires \/ LoadTimeoutFires \/ VerifyTimerFires \/ VerifyTimeoutFires
    \/ BackoffFires
    \/ PreloadTimerFires \/ WatchTimerFires \/ DiscoverTimerFires
    \/ DummyTimerFires \/ RetryTimerFires \/ ConnectTimeoutFires

\* -- ChromecastServiceQueue: the user, the player's events, the timers
QueueServiceDeviceDiscovered == \E d \in DeviceNames :
    /\ d \notin queueService.devices
    /\ Commit([St EXCEPT !.queueService = [@ EXCEPT !.devices = @ \cup {d}]])
CallQueueServiceConnect == \E name \in DeviceNames \cup {"", "unknown"} :
    /\ queueService.pc = "idle"
    /\ Commit(QueueServiceConnectToDevice(St, name))
CallQueueServiceDisconnect ==
    /\ queueService.pc = "idle"
    /\ Commit([QueueServiceDisconnect(St) EXCEPT
                  !.outcome = {Outcome("queueService.disconnect", "success", Ok,
                                       Call(-1, Undefined), Null)}])
QueueServiceDiscoverTimerFires ==
    /\ queueService.pc = "discover"
    /\ Commit(QueueServiceConnectFound(St))
QueueServiceConnectCb == \E resp \in Responses :
    /\ queueService.pc = "connect"
    /\ Commit(QueueServiceConnectCallback(St, resp))
QueueServiceLaunchCb == \E resp \in Responses :
    /\ queueService.pc = "launch"
    /\ Commit(QueueServiceLaunchCallback(St, resp))
\* player.on('status'): _handleStatusUpdate
QueueServiceStatusEvent == \E ps \in {"IDLE", "PLAYING"}, item \in ItemIds \cup {NoItem} :
    /\ queueService.player
    /\ Commit([St EXCEPT !.queueService =
                  [@ EXCEPT !.currentStatus = [playerState |-> ps, currentItemId |-> item],
                            !.currentItemId = item,
                            !.savedDevice = queueService.currentDevice]])
\* player.on('queue-change'): _handleQueueChange; n = -1 is data without
\* items, item = -1 is data without currentItemId.
QueueServiceQueueChange == \E n \in -1..MaxQueue, item \in -1..MaxQueue :
    /\ queueService.player
    /\ Commit([St EXCEPT !.queueService =
                  [@ EXCEPT !.queueItems = IF n = -1 THEN @ ELSE [k \in 1..n |-> k],
                            !.currentItemId = IF item = -1 THEN @ ELSE item]])
\* player.on('close')
QueueServiceClose ==
    /\ queueService.player
    /\ Commit([St EXCEPT !.queueService = [@ EXCEPT !.player = FALSE]])

QueueServiceNext ==
    \/ QueueServiceDeviceDiscovered \/ CallQueueServiceConnect
    \/ CallQueueServiceDisconnect \/ QueueServiceDiscoverTimerFires
    \/ QueueServiceConnectCb \/ QueueServiceLaunchCb \/ QueueServiceStatusEvent
    \/ QueueServiceQueueChange \/ QueueServiceClose

\* -- _sanitizeStatus, called by getPlaybackStatus / getStatus and by
\* _handleStatusUpdate of either service
CallSanitizeStatus == \E service \in {"ChromecastService", "ChromecastServiceQueue"} :
    Commit([St EXCEPT !.outcome =
        {Outcome(service, "success", Ok, Call(-1, Undefined),
                 IF service = "ChromecastService" THEN SanitizeStatus(rawStatus)
                 ELSE QueueServiceSanitizeStatus(rawStatus))}])

Next ==
    \/ UserNext \/ DeviceNext \/ TimerNext
    \/ IdleEvent \/ MalformedEvent \/ CallSanitizeStatus \/ QueueServiceNext

Spec == Init /\ [][Next]_vars


\* ------------------------------------------------- scenario specifications
\* A queue of n entries as addToQueue stores it.
QueueOf(n) == [k \in 1..n |-> ((k - 1) % NumTracks) + 1]

\* The service after connectToDevice("tv"), addToQueue(q), setRepeatMode(rep)
\* and skipToTrack or stop have returned and the device reported status st.
Connected(q, idx, rep, st) ==
    [Constructed(Null) EXCEPT !.devices = {"tv"}, !.currentDevice = "tv",
                              !.savedDevice = "tv", !.connectionKeepAlive = TRUE,
                              !.currentStatus = st, !.queue = q,
                              !.currentTrackIndex = idx, !.repeat = rep]

PlaybackInit ==
    \E idx \in -1..(MaxQueue - 1), rep \in RepeatModes :
        InitFrom(Connected(QueueOf(MaxQueue), idx, rep, MkStatus("PLAYING", 0, Media)))

PlayMediaNext ==
    \/ EnsureCb \/ WarmPlayCb \/ WarmTimerFires \/ WarmStopCb \/ WarmStatusCb
    \/ StopCb \/ LoadCb \/ LoadTimeoutFires \/ VerifyTimerFires \/ VerifyTimeoutFires
    \/ VerifyPollCb

\* Playback left to itself: the device's events and the auto-advance paths.
AdvanceNext ==
    \/ PlayMediaNext
    \/ StatusEvent \/ ProgressEvent \/ FinishedEvent \/ BackoffFires
    \/ PreloadTimerFires \/ PreloadCb \/ WatchTimerFires

AdvanceSpec == PlaybackInit /\ [][AdvanceNext]_vars

\* The skip commands against the device's events.
SkipNext ==
    \/ EnsureCb \/ StopCb \/ LoadCb \/ LoadTimeoutFires \/ VerifyTimerFires \/ VerifyTimeoutFires
    \/ VerifyPollCb \/ StatusEvent
    \/ CallSkipToNext \/ CallSkipToPrevious \/ CallSkipToTrack

SkipSpec == PlaybackInit /\ [][SkipNext]_vars


\* The skip commands and playMedia against a device that answers or not:
\* the timers are certain to fire, the device's callbacks are not.
PlayNext ==
    \/ EnsureCb \/ WarmPlayCb \/ WarmTimerFires \/ WarmStopCb \/ WarmStatusCb
    \/ StopCb \/ LoadCb \/ LoadTimeoutFires \/ VerifyTimerFires \/ VerifyTimeoutFires
    \/ VerifyPollCb
    \/ CallPlayMedia \/ CallSkipToNext

PlayInit ==
    \E idx \in -1..(MaxQueue - 1), ps \in {"PLAYING", "IDLE"} :
        InitFrom(Connected(QueueOf(MaxQueue), idx, "none", MkStatus(ps, 0, Media)))

PlaySpec == PlayInit /\ [][PlayNext]_vars

FairPlaySpec ==
    /\ PlaySpec
    /\ WF_vars(WarmTimerFires) /\ WF_vars(LoadTimeoutFires)
    /\ WF_vars(VerifyTimerFires) /\ SF_vars(VerifyTimeoutFires)

\* The auto-advance against a connection that drops.
RecoveryNext ==
    \/ EnsureCb \/ StopCb \/ LoadCb \/ LoadTimeoutFires \/ VerifyTimerFires \/ VerifyTimeoutFires
    \/ VerifyPollCb \/ StatusEvent \/ DisconnectEvent \/ BackoffFires
    \/ InitCb \/ DirectCb \/ RetryTimerFires \/ RetryCb \/ ConnectTimeoutFires

RecoverySpec == PlaybackInit /\ [][RecoveryNext]_vars

\* The queue commands of a connected service, from the empty queue.
QueueInit == InitFrom(Connected(<<>>, -1, "none", MkStatus("IDLE", 0, Media)))

QueueNext ==
    \/ CallAddToQueue \/ QueueLoadCb \/ CallClearQueue \/ CallRemoveFromQueue
    \/ CallShuffleQueue \/ CallRestoreQueueOrder \/ CallSetRepeatMode \/ CallStop

QueueSpec == QueueInit /\ [][QueueNext]_vars

\* The service after disconnect(): the queue stays, the device is gone.
Disconnected(q, idx, rep) ==
    [Disconnect(Connected(q, idx, rep, DefaultStatus)) EXCEPT !.devices = {"tv"}]

CommandInit ==
    \E n \in 0..MaxQueue, idx \in -1..(MaxQueue - 1), connected \in BOOLEAN :
        /\ idx < n
        /\ n = 0 => idx = -1
        /\ InitFrom(IF connected
                    THEN Connected(QueueOf(n), idx, "none", MkStatus("PLAYING", 0, Media))
                    ELSE Disconnected(QueueOf(n), idx, "none"))

\* The playback commands, with and without a device.
CommandNext ==
    \/ CallPlayMedia \/ CallPlayQueue \/ CallPlayerCommand \/ CallStop
    \/ CallSetVolume \/ CallSkipToNext \/ CallSkipToPrevious \/ CallSkipToTrack
    \/ CallDisconnect \/ CallRemoveFromQueue \/ CallSetRepeatMode

CommandSpec == CommandInit /\ [][CommandNext]_vars

\* shuffleQueue and restoreQueueOrder on a queue in ascending order.
IsAscending(q) == \A k \in 1..(Len(q) - 1) : q[k] <= q[k + 1]

ShuffleInit ==
    \E q \in Queues, idx \in -1..(MaxQueue - 1), rep \in RepeatModes,
       connected \in BOOLEAN :
        /\ Len(q) > 0 /\ IsAscending(q) /\ idx < Len(q)
        /\ InitFrom(IF connected THEN Connected(q, idx, rep, MkStatus("PLAYING", 0, Media))
                    ELSE Disconnected(q, idx, rep))

ShuffleNext == CallShuffleQueue \/ CallRestoreQueueOrder

ShuffleSpec == ShuffleInit /\ [][ShuffleNext]_vars

\* Single tracks played with playMedia while the queue is empty: the state
\* after clearQueue (currentTrackIndex = -1) or after addToQueue of an empty
\* list (currentTrackIndex = 0).
EmptyQueueInit ==
    \E idx \in {-1, 0}, rep \in RepeatModes :
        InitFrom(Connected(<<>>, idx, rep, MkStatus("PLAYING", 0, Media)))

EmptyQueueNext ==
    \/ PlayMediaNext \/ CallPlayMedia
    \/ StatusEvent \/ ProgressEvent \/ FinishedEvent

EmptyQueueSpec == EmptyQueueInit /\ [][EmptyQueueNext]_vars

\* The commands that edit the queue without a device call, on any queue that
\* addToQueue can have stored.
EditInit ==
    \E q \in Queues, idx \in -1..(MaxQueue - 1) :
        /\ idx < Len(q)
        /\ InitFrom(Connected(q, idx, "none", MkStatus("PLAYING", 0, Media)))

EditNext ==
    \/ CallShuffleQueue \/ CallRestoreQueueOrder \/ CallRemoveFromQueue \/ CallClearQueue

EditSpec == EditInit /\ [][EditNext]_vars

\* connectToDevice and disconnect, on a service that is connected with a
\* queue loaded, disconnected, or just constructed.
ConnectInit ==
    \/ \E idx \in -1..(MaxQueue - 1), connected \in BOOLEAN :
          InitFrom(IF connected
                   THEN Connected(QueueOf(MaxQueue), idx, "none",
                                  MkStatus("PLAYING", 0, Media))
                   ELSE Disconnected(QueueOf(MaxQueue), idx, "none"))
    \/ InitFrom(Constructed(Null))

ConnectNext ==
    \/ CallConnect \/ CallDisconnect \/ DeviceDiscovered \/ DisconnectEvent
    \/ DiscoverTimerFires \/ HealthCb \/ InitCb \/ DummyPlayCb \/ DummyTimerFires
    \/ DummyStopCb \/ DummyStatusCb \/ DirectCb \/ RetryTimerFires \/ RetryCb
    \/ ConnectTimeoutFires

ConnectSpec == ConnectInit /\ [][ConnectNext]_vars

\* The session of ChromecastServiceQueue, from its construction.
QueueServiceSpec == InitFrom(Constructed(Null)) /\ [][QueueServiceNext]_vars

\* ChromecastServiceQueue after connectToDevice(name) and a queue-change
\* event with n items, both devices discovered.
QueueServiceConnected(name, n) ==
    [QueueServiceConstructed EXCEPT
        !.devices = DeviceNames, !.client = TRUE, !.player = TRUE,
        !.currentDevice = name, !.savedDevice = name, !.name = name,
        !.currentStatus = [playerState |-> "PLAYING", currentItemId |-> 1],
        !.queueItems = [k \in 1..n |-> k], !.currentItemId = 1]

\* Both implementations side by side, each connected to "tv" with a queue
\* loaded and both devices discovered.
SwitchInit ==
    InitFrom([Connected(QueueOf(MaxQueue), 0, "none", MkStatus("PLAYING", 0, Media))
                 EXCEPT !.devices = DeviceNames,
                        !.queueService = QueueServiceConnected("tv", MaxQueue)])

SwitchNext ==
    \/ CallConnect \/ CallDisconnect \/ DisconnectEvent \/ HealthCb \/ InitCb
    \/ DummyPlayCb \/ DummyTimerFires \/ DummyStopCb \/ DummyStatusCb \/ DirectCb
    \/ RetryTimerFires \/ RetryCb \/ ConnectTimeoutFires
    \/ CallQueueServiceConnect \/ CallQueueServiceDisconnect
    \/ QueueServiceConnectCb \/ QueueServiceLaunchCb

SwitchSpec == SwitchInit /\ [][SwitchNext]_vars

\* The payloads _sanitizeStatus is given: nothing, a primitive, an object
\* with fields missing, wrongly typed or well formed.
RawVolumes ==
    {JsUndefined, JsNull, JsString("loud"), JsNumber("1"),
     JsVolume(JsNumber("1"), JsBoolean("true")), JsVolume(JsString("loud"), JsUndefined)}
RawMedia ==
    {JsUndefined, JsNull, JsString("song"),
     JsMedia(JsString("song"), JsNumber("10")), JsMedia(JsUndefined, JsString("10"))}
RawStatuses ==
    {JsUndefined, JsNull, JsNumber("0"), JsNumber("1"), JsString(""),
     JsString("PLAYING"), JsBoolean("true")}
    \cup {JsStatus(id, JsNumber("1"), ps, ct, vol, media) :
            id \in {JsUndefined, JsNumber("1")},
            ps \in {JsUndefined, JsNull, JsString("PLAYING"), JsNumber("1")},
            ct \in {JsUndefined, JsNumber("0"), JsNumber("9"), JsString("9")},
            vol \in RawVolumes, media \in RawMedia}

SanitizeInit ==
    \E raw \in RawStatuses : InitFrom([Constructed(Null) EXCEPT !.rawStatus = raw])

SanitizeSpec == SanitizeInit /\ [][CallSanitizeStatus]_vars

\* stop() and disconnect() against a preload and its watch: the track plays
\* past 70% and the user stops the player or disconnects.
StopInit ==
    \E idx \in 0..(MaxQueue - 1) :
        InitFrom(Connected(QueueOf(MaxQueue), idx, "none", MkStatus("PLAYING", 0, Media)))

StopNext ==
    \/ CallStop \/ CallDisconnect \/ ProgressEvent
    \/ PreloadTimerFires \/ PreloadCb \/ WatchTimerFires
    \/ InitCb \/ DummyPlayCb \/ DummyTimerFires \/ DummyStopCb \/ DummyStatusCb
    \/ DirectCb \/ RetryTimerFires \/ RetryCb \/ ConnectTimeoutFires

StopSpec == StopInit /\ [][StopNext]_vars

\* A connection made over a queue that an earlier session left behind:
\* connectToDevice and its warm-up against the device's status events and
\* the auto-advance paths they start.
WarmupInit == InitFrom(Disconnected(QueueOf(MaxQueue), 0, "none"))

WarmupNext ==
    \/ CallConnect \/ HealthCb \/ InitCb \/ DummyPlayCb \/ DummyTimerFires
    \/ DummyStopCb \/ DummyStatusCb \/ DirectCb \/ RetryTimerFires \/ RetryCb
    \/ ConnectTimeoutFires
    \/ StatusEvent \/ PlayMediaNext \/ BackoffFires

WarmupSpec == WarmupInit /\ [][WarmupNext]_vars

\* The commands that move the queue position, one at a time, and the device
\* calls they make.
TargetNext ==
    \/ CallSkipToNext \/ CallSkipToPrevious \/ CallSkipToTrack \/ CallPlayQueue
    \/ QueueJumpCb
    \/ EnsureCb \/ WarmPlayCb \/ WarmTimerFires \/ WarmStopCb \/ WarmStatusCb
    \/ StopCb \/ LoadCb \/ LoadTimeoutFires \/ VerifyTimerFires

TargetSpec == PlaybackInit /\ [][TargetNext]_vars

\* The preload and its watch against every status the device reports, the
\* media-less IDLE of a track that has ended included.
WatchInit ==
    InitFrom(Connected(QueueOf(MaxQueue), 0, "none", MkStatus("PLAYING", 0, Media)))

WatchNext ==
    \/ PlayMediaNext
    \/ StatusEvent \/ ProgressEvent \/ IdleEvent \/ BackoffFires
    \/ PreloadTimerFires \/ PreloadCb \/ WatchTimerFires

WatchSpec == WatchInit /\ [][WatchNext]_vars

\* ------------------------------------------------------------------ claims
AutoKinds == {"advance", "finished", "seamless", "seamlessRec", "preload", "watch"}
RecoveryKinds == {"advance", "seamlessRec"}
SkipKinds == {"skipToNext", "skipToPrevious", "skipToTrack"}
VerifyPcs == {"verifyDelay", "verifyWait", "verifyPoll"}

InFlight(kinds) == {i \in TaskIds : tasks[i].kind \in kinds}
Advances(ts) == {i \in TaskIds : ts[i].kind = "advance"}

C1Quiet == InFlight(AutoKinds) = {} /\ ~isAutoAdvancing /\ ~preloadInProgress

C1PlayingToIdle ==
    /\ StatusEvent
    /\ currentStatus.playerState = "PLAYING" /\ currentStatus'.playerState = "IDLE"

C1Advanced ==
    /\ currentTrackIndex' = currentTrackIndex + 1
    /\ isAutoAdvancing'
    /\ Cardinality(Advances(tasks')) = 1
    /\ \A i \in Advances(tasks') : tasks'[i].trackIndex = currentTrackIndex + 1

C1NoSecondAdvance ==
    ((StatusEvent \/ ProgressEvent) /\ Advances(tasks) # {})
        => (currentTrackIndex' = currentTrackIndex /\ tasks' = tasks)

\* C1 (as amended): with a queue of n entries, 0 <= currentTrackIndex = i < n-1,
\* repeat 'none', no session warm-up and no preload, watch or advance in
\* flight, a status change from PLAYING to IDLE makes the fallback advance
\* set currentTrackIndex to i+1 and start exactly one advance; a status
\* event delivered while an advance is in flight changes neither
\* currentTrackIndex nor the set of suspended invocations.
C1_FallbackAdvanceOnce ==
    [][/\ (/\ C1PlayingToIdle /\ C1Quiet /\ repeat = "none"
           /\ ~sessionWarmupInProgress
           /\ 0 <= currentTrackIndex /\ currentTrackIndex < Len(queue) - 1)
          => C1Advanced
       /\ C1NoSecondAdvance]_vars

\* C1 as written: any i < n-1 (i = -1 included), whatever the warm-up flag.
C1_AsWritten ==
    [][/\ (/\ C1PlayingToIdle /\ C1Quiet /\ repeat = "none"
           /\ currentTrackIndex < Len(queue) - 1)
          => C1Advanced
       /\ C1NoSecondAdvance]_vars

\* An advance to index >= 1 is in flight and a later status event (PAUSED)
\* has been delivered.
C1_Witness ==
    \E i \in TaskIds :
        /\ tasks[i].kind = "advance" /\ tasks[i].trackIndex = currentTrackIndex
        /\ currentTrackIndex >= 1 /\ repeat = "none" /\ isAutoAdvancing
        /\ currentStatus.playerState = "PAUSED"

\* A user skip command that loaded a track returned success.
SkipSucceeded(o) == o.op \in SkipKinds /\ o.status = "success" /\ o.track # Undefined

\* C2: when skipToNext, skipToPrevious or skipToTrack returns success,
\* currentTrackIndex is the index the command targeted.
C2_SkipLandsOnTarget ==
    \A o \in outcome : SkipSucceeded(o) => currentTrackIndex = o.target

C3FallbackRuns ==
    /\ StatusEvent
    /\ currentStatus.playerState = "PLAYING"
    /\ currentStatus'.playerState \in {"IDLE", "BUFFERING"}
    /\ Len(queue) > 0 /\ currentTrackIndex >= 0
    /\ ~isAutoAdvancing /\ ~sessionWarmupInProgress

C3FinishedRuns == FinishedEvent /\ ~isAutoAdvancing

\* The step sets currentTrackIndex to idx and starts the track at idx.
C3Plays(idx) ==
    /\ currentTrackIndex' = idx
    /\ \E i \in TaskIds :
          /\ tasks[i].kind = "none" /\ tasks'[i].kind \in {"advance", "finished"}
          /\ tasks'[i].trackIndex = idx /\ tasks'[i].track = TrackAt(queue, idx)

C3Nothing == currentTrackIndex' = currentTrackIndex /\ tasks' = tasks

\* C3 (as amended): the fallback advance and the 'finished' handler pick:
\* repeat 'one' and currentTrackIndex >= 0 -> the same index; else
\* currentTrackIndex < last index -> currentTrackIndex + 1; else repeat 'all'
\* -> index 0; else nothing is started and currentTrackIndex is unchanged.
C3_NextIndexRule ==
    [][(C3FallbackRuns \/ C3FinishedRuns) =>
          IF repeat = "one" /\ currentTrackIndex >= 0 THEN C3Plays(currentTrackIndex)
          ELSE IF currentTrackIndex < Len(queue) - 1 THEN C3Plays(currentTrackIndex + 1)
          ELSE IF repeat = "all" /\ Len(queue) > 0 THEN C3Plays(0)
          ELSE C3Nothing]_vars

\* C3 as written: repeat 'one' -> the same index, whatever currentTrackIndex.
C3_AsWritten ==
    [][(C3FallbackRuns \/ C3FinishedRuns) =>
          IF repeat = "one" THEN C3Plays(currentTrackIndex)
          ELSE IF currentTrackIndex < Len(queue) - 1 THEN C3Plays(currentTrackIndex + 1)
          ELSE IF repeat = "all" /\ Len(queue) > 0 THEN C3Plays(0)
          ELSE C3Nothing]_vars

\* With repeat 'one' the 'finished' handler replays the last track of the queue.
C3_Witness ==
    \E i \in TaskIds :
        /\ tasks[i].kind = "finished" /\ repeat = "one"
        /\ tasks[i].trackIndex = currentTrackIndex
        /\ currentTrackIndex = Len(queue) - 1

\* C4: _playTrackWithRecovery never runs an attempt beyond maxAttempts; it
\* resolves in the step in which an attempt's playMedia succeeds; it rejects
\* only at attempt maxAttempts, with the error of that attempt.
C4_AtMostThreeAttempts ==
    /\ \A i \in InFlight(RecoveryKinds) : tasks[i].attempt \in 1..maxAttempts
    /\ \A o \in outcome : o.op = "_playTrackWithRecovery" =>
          /\ o.attempt \in 1..maxAttempts
          /\ o.status = "success" =>
                \E p \in outcome : /\ p.op = "playMedia" /\ p.status = "success"
                                   /\ p.kind \in RecoveryKinds /\ p.attempt = o.attempt
          /\ o.status = "error" =>
                /\ o.attempt = maxAttempts
                /\ \E a \in outcome : /\ a.op = "attempt" /\ a.attempt = maxAttempts
                                      /\ a.err = o.err
    /\ \A p \in outcome :
          (p.op = "playMedia" /\ p.kind \in RecoveryKinds /\ p.status = "success") =>
              \E o \in outcome : /\ o.op = "_playTrackWithRecovery"
                                 /\ o.status = "success" /\ o.attempt = p.attempt
    /\ \A a \in outcome :
          (a.op = "attempt" /\ a.attempt < maxAttempts) =>
              \A o \in outcome : o.op # "_playTrackWithRecovery"

\* The third attempt failed and _playTrackWithRecovery rejected.
C4_Witness ==
    \E o \in outcome : /\ o.op = "_playTrackWithRecovery" /\ o.status = "error"
                       /\ o.attempt = maxAttempts

\* C5: a playMedia whose load was acknowledged leaves the verification only
\* with success after a status PLAYING or BUFFERING was observed, or with the
\* error 'Playback verification failed'.
C5_UnverifiedLoadFails ==
    [][\A i \in TaskIds :
          (tasks[i].pc \in VerifyPcs /\ tasks'[i].pc \notin VerifyPcs) =>
              \E o \in outcome' :
                  /\ o.op = "playMedia" /\ o.track = tasks[i].track
                  /\ o.status = "success" => o.seen \in {"PLAYING", "BUFFERING"}
                  /\ o.status = "error" =>
                        (o.err = "Playback verification failed" /\ o.seen = Null)]_vars

\* A skip command failed at the verification.
C5_Witness ==
    \E o \in outcome : /\ o.op = "playMedia" /\ o.kind \in SkipKinds
                       /\ o.err = "Playback verification failed"

\* C6: when a skip command fails because the load failed or the playback was
\* not verified, currentTrackIndex is the index the command attempted.
C6_FailedSkipKeepsIndex ==
    \A o \in outcome :
        (/\ o.op \in SkipKinds /\ o.status = "error"
         /\ o.err \in {"Failed to play media", "Media load timeout",
                       "Playback verification failed"})
            => currentTrackIndex = o.target

\* C7: every playMedia, called alone or by a skip command, ends.
C7_PlayMediaSettles ==
    \A i \in TaskIds :
        (tasks[i].kind \in {"playMedia", "skipToNext"}) ~> (tasks[i].kind = "none")

\* C8: currentTrackIndex is -1 or an index of queue.
C8_IndexInRange ==
    currentTrackIndex = -1
    \/ (0 <= currentTrackIndex /\ currentTrackIndex < Len(queue))

C9Commands ==
    \/ CallPlayMedia \/ CallPlayQueue \/ CallPlayerCommand \/ CallStop
    \/ CallSetVolume \/ CallSkipToNext \/ CallSkipToPrevious \/ CallSkipToTrack

C9Ops == {"playMedia", "playQueue", "pause", "resume", "stop", "seek",
          "setVolume", "skipToNext", "skipToPrevious", "skipToTrack"}

\* C9: a playback command called while no device is connected returns a
\* 'No device connected' error, makes no device call, starts nothing, and
\* leaves queue and currentTrackIndex as they were.
C9_NoDeviceNoEffect ==
    [][(currentDevice = Null /\ C9Commands) =>
          /\ sent' = {} /\ tasks' = tasks
          /\ queue' = queue /\ currentTrackIndex' = currentTrackIndex
          /\ outcome' # {}
          /\ \A o \in outcome' : /\ o.op \in C9Ops /\ o.status = "error"
                                 /\ o.err \in {NoDevice, NoDeviceOrEmpty}]_vars

\* stop() was refused with a queue loaded and a current track.
C9_Witness ==
    /\ currentDevice = Null /\ currentTrackIndex >= 0 /\ sent = {}
    /\ \E o \in outcome : o.op = "stop" /\ o.err = NoDevice

\* The queue in ascending order: in ShuffleSpec, the queue before the first
\* shuffle.
PreShuffle(q) == CHOOSE p \in Shuffles(q) : IsAscending(p)

\* C10: a queue that is not shuffled is the queue before the first shuffle;
\* while it is shuffled, originalQueue holds that queue, whatever the number
\* of shuffles; no step adds or drops an entry.
C10_RestoreAfterShuffles ==
    /\ [](~shuffle => queue = PreShuffle(queue))
    /\ [](shuffle => originalQueue = PreShuffle(queue))
    /\ [][queue' \in Shuffles(queue)]_vars

\* restoreQueueOrder put a longest queue back in order.
C10_Witness ==
    /\ ~shuffle /\ Len(queue) = MaxQueue /\ originalQueue = queue
    /\ \E o \in outcome : o.op = "restoreQueueOrder" /\ o.status = "success"

\* C11: removeFromQueue(index) with a valid index <= currentTrackIndex leaves
\* currentTrackIndex at the entry it pointed to (one place lower), or sets it
\* to -1 when the entry removed was the current one.
C11_RemoveKeepsCurrent ==
    [][\A k \in 0..currentTrackIndex :
          (k < Len(queue) /\ Commit(RemoveFromQueue(St, k))) =>
              IF k = currentTrackIndex THEN currentTrackIndex' = -1
              ELSE /\ currentTrackIndex' = currentTrackIndex - 1
                   /\ TrackAt(queue', currentTrackIndex')
                        = TrackAt(queue, currentTrackIndex)]_vars

\* C12: addToQueue(tracks) on a queue that holds entries appends: once the
\* device has answered queueLoad, queue is the earlier queue followed by tracks.
C12_AddAppends ==
    [][\A i \in TaskIds :
          (/\ tasks[i].kind = "addToQueue" /\ tasks'[i].kind = "none"
           /\ Len(queue) > 0 /\ QueueLoadCb)
              => queue' = queue \o tasks[i].queueBackup]_vars

\* C13: skipToNext picks its target by the rule of the auto-advance: repeat
\* 'one' -> the current index; else below the last index -> the next index;
\* else repeat 'all' -> index 0; else no track is started.
C13_SkipNextFollowsRepeat ==
    [][(CallSkipToNext /\ currentDevice # Null /\ Len(queue) > 0
        /\ currentTrackIndex >= 0) =>
          IF repeat = "one" THEN currentTrackIndex' = currentTrackIndex
          ELSE IF currentTrackIndex < Len(queue) - 1
          THEN currentTrackIndex' = currentTrackIndex + 1
          ELSE IF repeat = "all" THEN currentTrackIndex' = 0
          ELSE currentTrackIndex' = currentTrackIndex /\ tasks' = tasks]_vars

\* C14: with an empty queue, a status change from PLAYING to IDLE or
\* BUFFERING, any other status event and a 'finished' event start no track,
\* send nothing to the device and leave currentTrackIndex as it was, for
\* every repeat mode.
C14_EmptyQueueNoAdvance ==
    [][(Len(queue) = 0 /\ (StatusEvent \/ ProgressEvent \/ FinishedEvent)) =>
          /\ currentTrackIndex' = currentTrackIndex
          /\ tasks' = tasks /\ sent' = {}
          /\ queue' = queue /\ isAutoAdvancing' = isAutoAdvancing]_vars

\* With repeat 'all' and no track in flight, the status went from PLAYING to
\* BUFFERING over an empty queue.
C14_Witness ==
    /\ Len(queue) = 0 /\ repeat = "all" /\ currentTrackIndex = 0
    /\ currentStatus.playerState = "BUFFERING"
    /\ \A i \in TaskIds : tasks[i].kind = "none"

\* C15: originalQueue is non-empty only while shuffle is true.
C15_SnapshotOnlyWhileShuffled == Len(originalQueue) > 0 => shuffle

\* C16: shuffleQueue on a queue of 0 or 1 entries returns status 'info' and
\* leaves queue, currentTrackIndex, shuffle and originalQueue unchanged.
C16_ShuffleSmallQueue ==
    [][(CallShuffleQueue /\ Len(queue) <= 1) =>
          /\ queue' = queue /\ currentTrackIndex' = currentTrackIndex
          /\ shuffle' = shuffle /\ originalQueue' = originalQueue
          /\ outcome' # {}
          /\ \A o \in outcome' : o.op = "shuffleQueue" /\ o.status = "info"]_vars

\* shuffleQueue returned 'info' on a queue of one entry that is the current one.
C16_Witness ==
    /\ Len(queue) = 1 /\ currentTrackIndex = 0 /\ ~shuffle
    /\ \E o \in outcome : o.op = "shuffleQueue" /\ o.status = "info"

\* C17: restoreQueueOrder returns status 'info' and changes nothing when
\* shuffle is false; otherwise it sets queue to originalQueue, shuffle to
\* false and currentTrackIndex to -1.
C17_RestoreOrInfo ==
    [][CallRestoreQueueOrder =>
          IF ~shuffle
          THEN /\ queue' = queue /\ currentTrackIndex' = currentTrackIndex
               /\ shuffle' = shuffle /\ originalQueue' = originalQueue
               /\ \E o \in outcome' : o.op = "restoreQueueOrder" /\ o.status = "info"
          ELSE /\ queue' = originalQueue /\ ~shuffle' /\ currentTrackIndex' = -1
               /\ \E o \in outcome' : o.op = "restoreQueueOrder"
                                      /\ o.status = "success"]_vars

\* The step returned `status` from the command op, sent nothing to the device
\* and started nothing.
C18Returned(op, status) ==
    /\ sent' = {} /\ tasks' = tasks /\ outcome' # {}
    /\ \A o \in outcome' : o.op = op /\ o.status = status

\* C18: setRepeatMode(mode) succeeds and sets repeat to mode exactly when mode
\* is 'none', 'one' or 'all'; any other value is rejected with an error and
\* repeat keeps its value.
C18_RepeatModeValidated ==
    [][\A mode \in RepeatModes \cup {"shuffle"} :
          Commit(SetRepeatMode(St, mode)) =>
              IF mode \in {"none", "one", "all"}
              THEN repeat' = mode /\ C18Returned("setRepeatMode", "success")
              ELSE repeat' = repeat /\ C18Returned("setRepeatMode", "error")]_vars

\* An unknown mode was rejected after repeat had been set to 'one'.
C18_Witness ==
    /\ repeat = "one"
    /\ \E o \in outcome : o.op = "setRepeatMode" /\ o.status = "error"

\* The step rejected the command op and changed nothing.
C19Rejected(op) ==
    /\ C18Returned(op, "error")
    /\ queue' = queue /\ currentTrackIndex' = currentTrackIndex
    /\ shuffle' = shuffle /\ repeat' = repeat /\ originalQueue' = originalQueue

\* C19: removeFromQueue with an index outside the queue, skipToTrack with a
\* number outside 1..queue.length, playQueue with a start index outside the
\* queue and setRepeatMode with an unknown mode return an error in the step
\* that calls them, send nothing to the device, start nothing and leave
\* queue, currentTrackIndex, shuffle and repeat unchanged.
C19_InvalidArgumentNoEffect ==
    [][/\ \A k \in -1..MaxQueue :
             ((k < 0 \/ k >= Len(queue)) /\ Commit(RemoveFromQueue(St, k)))
                 => C19Rejected("removeFromQueue")
       /\ \A n \in 0..(MaxQueue + 1) :
             ((n < 1 \/ n > Len(queue)) /\ MayCall /\ Commit(SkipToTrack(St, n)))
                 => C19Rejected("skipToTrack")
       /\ \A k \in -1..MaxQueue :
             ((k < 0 \/ k >= Len(queue)) /\ MayCall /\ Commit(PlayQueue(St, k)))
                 => C19Rejected("playQueue")
       /\ Commit(SetRepeatMode(St, "shuffle")) => C19Rejected("setRepeatMode")]_vars

\* skipToTrack was rejected for its number on a connected service with a queue.
C19_Witness ==
    /\ currentDevice # Null /\ Len(queue) > 0 /\ currentTrackIndex >= 0
    /\ \E o \in outcome : /\ o.op = "skipToTrack" /\ o.status = "error"
                          /\ o.err = "Invalid track number"

C20Unchanged ==
    /\ currentDevice' = currentDevice /\ currentStatus' = currentStatus
    /\ queue' = queue /\ currentTrackIndex' = currentTrackIndex
    /\ connectionKeepAlive' = connectionKeepAlive /\ savedDevice' = savedDevice

\* C20: connectToDevice(name) called while connected to the device of that
\* name sends one status probe and, when the probe is answered without an
\* error, returns success: neither step changes currentDevice, currentStatus,
\* queue, currentTrackIndex or the keep-alive timer, and no load or stop is
\* sent to the device.
C20_ReconnectSameDeviceNoOp ==
    [][/\ \A i \in TaskIds :
             (CallConnect /\ currentDevice # Null
              /\ tasks[i].kind = "none" /\ tasks'[i].pc = "cHealth")
                 => /\ C20Unchanged /\ tasks'[i].name = currentDevice
                    /\ sent' = {[cmd |-> "getStatus", track |-> Undefined]}
       /\ \A i \in TaskIds :
             (tasks[i].pc = "cHealth" /\ tasks[i].kind = "connectToDevice"
              /\ Commit(HealthCallback(St, i, "ok")))
                 => /\ C20Unchanged /\ sent' = {} /\ tasks'[i].kind = "none"
                    /\ \E o \in outcome' : /\ o.op = "connectToDevice"
                                           /\ o.status = "success"]_vars

\* connectToDevice("tv") returned after the health check, with a queue loaded
\* and a current track.
C20_Witness ==
    /\ currentDevice = "tv" /\ currentTrackIndex >= 0 /\ connectionKeepAlive
    /\ \E o \in outcome : /\ o.op = "connectToDevice" /\ o.status = "success"
                          /\ o.seen = "healthy"

\* C21: connectToDevice(B), called while the service is connected to another
\* device A and B is known to discovery, leaves currentDevice = A and the
\* queue and playback state as they were (and ChromecastService returns
\* success at once); this holds for both implementations of the service.
C21_KeepsCurrentDevice ==
    [][\A name \in DeviceNames :
          /\ (/\ currentDevice \notin {Null, name} /\ name \in devices
              /\ MayCall /\ Commit(Connect(St, name)))
                => /\ currentDevice' = currentDevice
                   /\ UNCHANGED <<currentStatus, queue, currentTrackIndex, shuffle,
                                  repeat, originalQueue>>
                   /\ \E o \in outcome' : o.op = "connectToDevice" /\ o.status = "success"
          /\ (/\ queueService.currentDevice \notin {Null, name}
              /\ name \in queueService.devices /\ queueService.pc = "idle"
              /\ Commit(QueueServiceConnectToDevice(St, name)))
                => /\ queueService'.currentDevice = queueService.currentDevice
                   /\ queueService'.queueItems = queueService.queueItems
                   /\ queueService'.currentItemId = queueService.currentItemId
                   /\ queueService'.currentStatus = queueService.currentStatus]_vars

\* The part of C21 about ChromecastService alone.
C21_ChromecastServiceKeeps ==
    [][\A name \in DeviceNames :
          (/\ currentDevice \notin {Null, name} /\ name \in devices
           /\ MayCall /\ Commit(Connect(St, name)))
             => /\ currentDevice' = currentDevice
                /\ UNCHANGED <<currentStatus, queue, currentTrackIndex, shuffle,
                               repeat, originalQueue>>
                /\ \E o \in outcome' : o.op = "connectToDevice" /\ o.status = "success"]_vars

\* C22: disconnect() leaves the session and the queue at their defaults
\* (currentDevice null, status default, queue empty, no current position,
\* keep-alive stopped) whatever the state it is called in, and a second
\* disconnect() changes nothing; this holds for both implementations.
C22_DisconnectResets ==
    [][/\ CallDisconnect
          => /\ currentDevice' = Null /\ currentStatus' = DefaultStatus
             /\ queue' = <<>> /\ currentTrackIndex' = -1
             /\ ~connectionKeepAlive'
             /\ Disconnect(St)' = St'
       /\ CallQueueServiceDisconnect
          => /\ queueService'.currentDevice = Null
             /\ queueService'.currentStatus = QueueServiceDefaultStatus
             /\ queueService'.queueItems = <<>>
             /\ queueService'.currentItemId = NoItem
             /\ QueueServiceDisconnect(St).queueService' = queueService']_vars

\* The part of C22 the code keeps: the session is reset, the keep-alive is
\* stopped, and a second disconnect() changes nothing.
C22_DisconnectResetsSession ==
    [][/\ CallDisconnect
          => /\ currentDevice' = Null /\ currentStatus' = DefaultStatus
             /\ ~connectionKeepAlive'
             /\ Disconnect(St)' = St'
       /\ CallQueueServiceDisconnect
          => /\ queueService'.currentDevice = Null
             /\ queueService'.currentStatus = QueueServiceDefaultStatus
             /\ queueService'.queueItems = <<>>
             /\ queueService'.currentItemId = NoItem
             /\ QueueServiceDisconnect(St).queueService' = queueService']_vars

\* What C23 asks of the status `out` returned for the payload `raw`.
C23Sanitized(raw, out) ==
    /\ DOMAIN out = {"type", "mediaSessionId", "playbackRate", "playerState",
                     "currentTime", "volume", "media"}
    /\ IF ~Truthy(raw) \/ TypeOf(raw) # "object"
       THEN /\ out.playerState = JsString("IDLE") /\ out.currentTime = JsNumber("0")
            /\ out.volume = JsNull /\ out.media = JsNull
       ELSE /\ out.playerState = IF TypeOf(raw.playerState) = "string"
                                 THEN raw.playerState ELSE JsString("IDLE")
            /\ out.currentTime = IF TypeOf(raw.currentTime) = "number"
                                 THEN raw.currentTime ELSE JsNumber("0")
            /\ (raw.volume.type \notin {"object", "number"}) => out.volume = JsNull
            /\ (raw.media.type # "object") => out.media = JsNull

\* C23: _sanitizeStatus returns, for every payload (null, undefined, a
\* primitive, an object with missing or wrongly typed fields, a well-formed
\* payload), a status of the one shape, with playerState 'IDLE', currentTime
\* 0, volume null and media null wherever the field is missing or wrongly
\* typed; this holds for both implementations.
C23_SanitizeTotal ==
    \A o \in outcome : C23Sanitized(rawStatus, o.seen)

\* The part of C23 about ChromecastService alone.
C23_ChromecastServiceSanitizes ==
    \A o \in outcome : o.op = "ChromecastService" => C23Sanitized(rawStatus, o.seen)

\* The invocations of the preload-and-switch strategy and of the fallback.
PreloadSwitchKinds == {"preload", "watch", "seamless", "seamlessRec"}
PreloadSwitchInFlight == \E i \in TaskIds : tasks[i].kind \in PreloadSwitchKinds
FallbackInFlight == \E i \in TaskIds : tasks[i].kind = "advance"

\* C24: a preload-and-switch (the preload, its watch, the seamless switch)
\* and a fallback stop-then-load advance are never in flight together.
C24_OneStrategyAtATime == ~(PreloadSwitchInFlight /\ FallbackInFlight)

\* C25: at most one preload-and-switch attempt is live: from the start of a
\* preload until its watch has ended there is no second preload and no
\* second watch.
C25_OnePreloadAttempt ==
    Cardinality({i \in TaskIds : tasks[i].kind \in {"preload", "watch"}}) <= 1

\* The device calls that load a track.
LoadCommands == {"play", "playPreload", "queueLoad"}

\* C26: once stop() has succeeded (currentTrackIndex is -1) or disconnect()
\* has run (the keep-alive is cleared), no step of a preload or of a
\* seamless-transition watch that was scheduled earlier changes
\* currentTrackIndex or sends a load to a device.
C26_StopHaltsWatchAndPreload ==
    [][\A i \in TaskIds :
          (/\ tasks[i].kind \in {"preload", "watch"} /\ tasks'[i] # tasks[i]
           /\ (currentTrackIndex = -1 \/ ~connectionKeepAlive))
             => /\ currentTrackIndex' = currentTrackIndex
                /\ \A c \in sent' : c.cmd \notin LoadCommands]_vars

\* A session warm-up is running: the one of _ensureSessionActive (flagged)
\* or the placeholder load and stop of connectToDevice.
WarmupInProgress ==
    \/ sessionWarmupInProgress
    \/ \E i \in TaskIds : tasks[i].pc \in {"cDummyPlay", "cDummyTimer", "cDummyStop"}

\* C27: while a session warm-up is in progress, a status event starts
\* neither an auto-advance nor a preload.
C27_WarmupSuppressesAdvance ==
    [][(WarmupInProgress /\ StatusEvent)
          => /\ isAutoAdvancing' = isAutoAdvancing
             /\ preloadInProgress' = preloadInProgress
             /\ \A i \in TaskIds : tasks'[i] = tasks[i]]_vars

\* The part of C27 about the warm-up of _ensureSessionActive alone.
C27_FlaggedWarmupSuppressesAdvance ==
    [][(sessionWarmupInProgress /\ StatusEvent)
          => /\ isAutoAdvancing' = isAutoAdvancing
             /\ preloadInProgress' = preloadInProgress
             /\ \A i \in TaskIds : tasks'[i] = tasks[i]]_vars

\* C28: no failure of an auto-advance (fallback advance, 'finished' handler,
\* preload, seamless switch and its recovery) leaves the engine as an
\* unhandled rejection.
C28_NoUnhandledRejection ==
    \A o \in outcome : o.op # "unhandledRejection"

\* The commands C29 is about; playQueue becomes playLegacy when the device
\* refuses queueJumpToItem.
TargetKinds == SkipKinds \cup {"playQueue"}

\* C29: when skipToNext, skipToPrevious, skipToTrack or playQueue(startIndex)
\* issues its first device call, currentTrackIndex is already the target
\* index of the command.
C29_IndexSetBeforeDeviceCall ==
    [][\A i \in TaskIds :
          (/\ tasks[i].kind = "none" /\ tasks'[i].kind \in TargetKinds
           /\ sent' # {})
             => currentTrackIndex' = tasks'[i].trackIndex]_vars

\* The part of C29 about the skip commands alone.
C29_SkipSetsIndexFirst ==
    [][\A i \in TaskIds :
          (/\ tasks[i].kind = "none" /\ tasks'[i].kind \in SkipKinds
           /\ sent' # {})
             => currentTrackIndex' = tasks'[i].trackIndex]_vars

\* The condition C30 gives for the switch, on the last known status.
C30SwitchDue ==
    \/ currentStatus.playerState = "IDLE"
    \/ /\ currentStatus.media.present
       /\ currentStatus.media.duration - currentStatus.currentTime <= 2

\* The watches whose timer is pending while their target is still ahead
\* and no advance is running.
C30LiveWatches ==
    {i \in TaskIds : /\ tasks[i].kind = "watch" /\ tasks[i].pc = "watchTimer"
                     /\ currentTrackIndex < tasks[i].trackIndex
                     /\ ~isAutoAdvancing}

\* C30: the next check of a live watch commits the switch (sets
\* currentTrackIndex to its target) when, and only when, the last known status
\* shows at most 2 s remaining or playerState IDLE, with or without media.
C30_WatchCommitsWhenDue ==
    \A i \in C30LiveWatches :
        C30SwitchDue <=>
            CheckForTransition(St, i).currentTrackIndex = tasks[i].trackIndex

\* The part of C30 the code keeps: the check commits only when the switch is
\* due, and always when the status that makes it due carries media.
C30_WatchCommitsWhenDueWithMedia ==
    \A i \in C30LiveWatches :
        LET committed ==
                CheckForTransition(St, i).currentTrackIndex = tasks[i].trackIndex
        IN /\ committed => C30SwitchDue
           /\ (C30SwitchDue /\ currentStatus.media.present) => committed

\* C31: once currentTrackIndex has reached or passed the target of a
\* seamless-transition watch, a check of that watch does nothing but end the
\* watch: it leaves currentTrackIndex alone and starts no track.
C31_ObsoleteWatchIdle ==
    [][\A i \in TaskIds :
          (/\ tasks[i].kind = "watch" /\ tasks[i].pc = "watchTimer"
           /\ currentTrackIndex >= tasks[i].trackIndex
           /\ Commit(CheckForTransition(St, i)))
             => /\ currentTrackIndex' = currentTrackIndex
                /\ tasks'[i].kind = "none"
                /\ sent' = {}
                /\ isAutoAdvancing' = isAutoAdvancing]_vars

\* The cached status under pushed payloads and the commands that write it.
StatusInit ==
    \E n \in 0..MaxQueue, idx \in -1..(MaxQueue - 1) :
        /\ idx < n
        /\ n = 0 => idx = -1
        /\ InitFrom(Connected(QueueOf(n), idx, "none", DefaultStatus))

StatusNext ==
    \/ StatusEvent \/ ProgressEvent \/ IdleEvent \/ MalformedEvent
    \/ CallPlayerCommand \/ CallStop \/ CallSetVolume \/ VolumeCb

StatusSpec == StatusInit /\ [][StatusNext]_vars

\* C32: in every reachable state currentStatus is a normalized status: its
\* playerState is one of IDLE, BUFFERING, PLAYING and PAUSED, its currentTime
\* is a number, its volume is null or a record and its media is null or a
\* record with a duration.
C32_StatusNormalized ==
    /\ currentStatus.playerState \in PlayerStates
    /\ currentStatus.currentTime \in Nat
    /\ currentStatus.volume \in {Null, "record"}
    /\ currentStatus.media \in {NoMedia, Media}

\* One track end: the track at index 0 of a full queue plays and ends; the
\* device reports the end twice and answers the calls of the advance.
TrackEndInit ==
    \E rep \in RepeatModes \ {"one"} :
        InitFrom(Connected(QueueOf(MaxQueue), 0, rep, MkStatus("PLAYING", 0, Media)))

TrackEndNext ==
    \/ TrackEndFinished \/ TrackEndIdle \/ PlayingEvent
    \/ EnsureCb \/ StopCb \/ LoadCb \/ LoadTimeoutFires
    \/ VerifyTimerFires \/ VerifyTimeoutFires \/ VerifyPollCb \/ BackoffFires

TrackEndSpec == TrackEndInit /\ [][TrackEndNext]_vars

\* C33: the end of the track at index 0, reported by the 'finished' event
\* and by a status IDLE in either order and at any distance, advances the
\* queue by one position only: currentTrackIndex never goes past 1.
C33_OneAdvancePerTrackEnd == currentTrackIndex <= 1

\* C34: with repeat 'one' and a current track, no step of an automatic path
\* changes currentTrackIndex or sends the load of a track other than the
\* current one.
C34_RepeatOneStays ==
    [][(repeat = "one" /\ currentTrackIndex >= 0)
         => /\ currentTrackIndex' = currentTrackIndex
            /\ \A c \in sent' : c.cmd \in {"play", "playPreload"}
                                   => c.track = TrackAt(queue, currentTrackIndex)]_vars

\* Queue edits against a fallback advance and its recovery attempts.
UndoInit ==
    InitFrom(Connected(QueueOf(MaxQueue), 0, "none", MkStatus("PLAYING", 0, Media)))

UndoNext ==
    \/ StatusEvent \/ EnsureCb \/ StopCb \/ LoadCb \/ LoadTimeoutFires
    \/ VerifyTimerFires \/ VerifyTimeoutFires \/ VerifyPollCb \/ BackoffFires
    \/ CallClearQueue \/ CallRemoveFromQueue

UndoSpec == UndoInit /\ [][UndoNext]_vars

\* C35: what clearQueue or removeFromQueue took out of the queue while an
\* auto-advance with recovery is in flight stays out: no step of the advance
\* changes the queue.
C35_EditNotUndone ==
    [][queue' # queue
         => \/ Commit(ClearQueue(St))
            \/ \E k \in -1..MaxQueue : Commit(RemoveFromQueue(St, k))]_vars

\* C36: with a device that pushes no status of its own, the only status
\* received after a load was issued is the answer to a poll of
\* _verifyPlayback: playMedia returns success only in the step in which such a
\* poll is answered with PLAYING or BUFFERING, never on the status cached
\* from before the load.
C36_VerifiedByFreshStatus ==
    [][(\E o \in outcome' : o.op = "playMedia" /\ o.status = "success")
         => \E i \in TaskIds, st \in DeviceStatuses :
               /\ IsPlayingOrBuffering(st) /\ At(i, {"verifyPoll"})
               /\ Commit(VerifyPollCallback(St, i, st))]_vars

\* C37: when the warm-up of _ensureSessionActive fails to establish a session
\* (the placeholder load is answered with an error), playMedia sends neither a
\* stop nor a load to the device and fails with an error.
C37_NoCommandWithoutSession ==
    [][\A i \in TaskIds :
          (At(i, {"warmPlay"}) /\ Commit(WarmPlayCallback(St, i, "error")))
            => /\ \A c \in sent' : c.cmd \notin {"stop", "play"}
               /\ \E o \in outcome' : o.op = "playMedia" /\ o.status = "error"]_vars

\* C38: a connectToDevice call that fails on its name (empty, or not found by
\* discovery) while the service is connected to a device leaves currentDevice,
\* currentStatus and the keep-alive timer as they were.
C38_FailedConnectKeepsConnection ==
    [][\A name \in {"", "unknown"} :
          (/\ currentDevice # Null /\ connectionKeepAlive
           /\ MayCall /\ Commit(Connect(St, name))
           /\ \E o \in outcome' : o.op = "connectToDevice" /\ o.status = "error")
             => /\ currentDevice' = currentDevice
                /\ currentStatus' = currentStatus
                /\ connectionKeepAlive' = connectionKeepAlive]_vars

\* The number of entries of q that hold track t.
C39Count(q, t) == Cardinality({k \in 1..Len(q) : q[k] = t})

\* C39: a successful restoreQueueOrder leaves in the queue exactly the tracks
\* the queue held just before the call, each as many times as before.
C39_RestoreKeepsTracks ==
    [][(/\ shuffle /\ Len(originalQueue) > 0
        /\ Commit(RestoreQueueOrder(St)))
         => \A t \in Tracks : C39Count(queue', t) = C39Count(queue, t)]_vars

\* Playback left to itself with a device that answers every call: each
\* callback and each timer that is pending is run in the end, and the
\* deadline of _verifyPlayback is met in the end.
FlagInit ==
    InitFrom(Connected(QueueOf(MaxQueue), MaxQueue - 2, "none",
                       MkStatus("PLAYING", 0, Media)))

FairAdvanceSpec ==
    /\ FlagInit /\ [][AdvanceNext]_vars
    /\ WF_vars(EnsureCb) /\ WF_vars(WarmPlayCb) /\ WF_vars(WarmTimerFires)
    /\ WF_vars(WarmStopCb) /\ WF_vars(WarmStatusCb) /\ WF_vars(StopCb)
    /\ WF_vars(LoadCb) /\ WF_vars(VerifyTimerFires) /\ WF_vars(VerifyPollCb)
    /\ SF_vars(VerifyTimeoutFires) /\ WF_vars(BackoffFires)
    /\ WF_vars(PreloadTimerFires) /\ WF_vars(PreloadCb) /\ WF_vars(WatchTimerFires)

\* C40: each of the flags isAutoAdvancing, preloadInProgress and
\* sessionWarmupInProgress, once true, is false again later, when the device
\* answers every call.
C40_FlagsReset ==
    /\ isAutoAdvancing ~> ~isAutoAdvancing
    /\ preloadInProgress ~> ~preloadInProgress
    /\ sessionWarmupInProgress ~> ~sessionWarmupInProgress

\* An advance with recovery has just returned and left isAutoAdvancing false.
C40_Witness ==
    /\ ~isAutoAdvancing /\ ~preloadInProgress /\ ~sessionWarmupInProgress
    /\ \E o \in outcome : o.op = "_playTrackWithRecovery"
====
